---- MODULE Spec2Model ----
(***************************************************************************)
(* A model of the Structure Engine of plurals (src/plurals/deliberation.py,*)
(* src/plurals/agent.py, src/plurals/helpers.py): construction of a        *)
(* Structure over a list of Agents, and process() of Chain, Ensemble,      *)
(* Debate and Graph.                                                       *)
(*                                                                         *)
(* Text is modelled as a sequence of tokens (strings).  A token stands for *)
(* a run of characters that the program's string operations treat as a     *)
(* unit: a word of a task, one response of the LLM, a placeholder such as  *)
(* "${task}", the word "None", a period, a blank, a newline.               *)
(* Python's None is the value NoneVal, which is no text.                   *)
(***************************************************************************)
EXTENDS Integers, Sequences, FiniteSets, TLC

\* ------------------------------------------------------------------ bounds

\* Participants of an Ensemble that is followed through its threads.
MaxAgents == 2
\* Participants of a Graph that is followed through its schedule.
GraphAgents == 3
\* Length of a Graph's edge list.
MaxEdges == 2
\* Values of cycles that are tried (0 is the invalid value).
MaxCycles == 2
\* Values of last_n that are tried (0 is the invalid value).
MaxLastN == 2
\* Completion calls that fail in one run.
MaxFailures == 1

\* --------------------------------------------------------------- text model

\* Python's None.
NoneVal == <<"<None>">>

\* Whitespace tokens: a blank and a newline.
SP == "SP"
NL == "NL"
Whitespace == {SP, NL}

\* bool(x) of an Optional[str].
Truthy(x) == x # NoneVal /\ x # <<>>

\* str(x) / "{}".format(x) / f"{x}" of an Optional[str].
PyStr(x) == IF x = NoneVal THEN <<"None">> ELSE x

RECURSIVE StripLeft(_)
StripLeft(s) ==
    IF s # <<>> /\ Head(s) \in Whitespace THEN StripLeft(Tail(s)) ELSE s

RECURSIVE StripRight(_)
StripRight(s) ==
    IF s # <<>> /\ s[Len(s)] \in Whitespace
    THEN StripRight(SubSeq(s, 1, Len(s) - 1))
    ELSE s

\* str.strip()
Strip(s) == StripRight(StripLeft(s))

StartsWith(s, p) == Len(p) <= Len(s) /\ SubSeq(s, 1, Len(p)) = p

EndsWith(s, p) == Len(p) <= Len(s) /\ SubSeq(s, Len(s) - Len(p) + 1, Len(s)) = p

\* `p in s` for strings.
Contains(s, p) == \E i \in 1..(Len(s) - Len(p) + 1) : SubSeq(s, i, i + Len(p) - 1) = p

\* str.replace(old, new) for a non-empty old: leftmost, non-overlapping, one pass.
RECURSIVE Replace(_, _, _)
Replace(s, old, new) ==
    IF s = <<>> THEN <<>>
    ELSE IF StartsWith(s, old)
         THEN new \o Replace(SubSeq(s, Len(old) + 1, Len(s)), old, new)
         ELSE <<Head(s)>> \o Replace(Tail(s), old, new)

\* SmartString.__new__: a str loses every 'None'; anything else goes to
\* str.__new__ unchanged, and str.__new__(cls, None) is the text 'None'.
SmartString(content) ==
    IF content # NoneVal THEN Replace(content, <<"None">>, <<>>) ELSE PyStr(content)

\* The placeholders string.Template recognises for an identifier k.
Braced(k) == "${" \o k \o "}"
Unbraced(k) == "$" \o k

\* kwargs are a sequence of <<key, value>> pairs, in the order of the call.
KwHas(kw, tok) == \E i \in 1..Len(kw) : tok \in {Braced(kw[i][1]), Unbraced(kw[i][1])}
KwGet(kw, tok) ==
    LET i == CHOOSE j \in 1..Len(kw) : tok \in {Braced(kw[j][1]), Unbraced(kw[j][1])}
    IN kw[i][2]

\* string.Template.safe_substitute: a named placeholder takes its value, "$$"
\* is the escape of "$", everything else stays.
RECURSIVE SafeSubstitute(_, _)
SafeSubstitute(s, kw) ==
    IF s = <<>> THEN <<>>
    ELSE (IF KwHas(kw, Head(s)) THEN KwGet(kw, Head(s))
          ELSE IF Head(s) = "$$" THEN <<"$">>
          ELSE <<Head(s)>>) \o SafeSubstitute(Tail(s), kw)

\* The loop of SmartString.format over kwargs, from pair i on.
RECURSIVE AvoidDoublePeriod(_, _, _, _)
AvoidDoublePeriod(self, formatted, kw, i) ==
    IF i > Len(kw) THEN formatted
    ELSE LET key == kw[i][1]
             value == kw[i][2]
             hit == Contains(self, <<Braced(key), ".">>) /\ EndsWith(value, <<".">>)
         IN AvoidDoublePeriod(self,
                IF hit THEN Replace(formatted, value \o <<".">>, value) ELSE formatted,
                kw, i + 1)

\* SmartString.format(avoid_double_period, **kwargs) of the SmartString self.
SmartFormat(self, kw, avoid_double_period) ==
    IF self = <<>> THEN NoneVal
    ELSE LET kw2 == [i \in 1..Len(kw) |->
                        <<kw[i][1], IF kw[i][2] = NoneVal THEN <<>> ELSE kw[i][2]>>]
             formatted == SafeSubstitute(self, kw2)
         IN IF avoid_double_period
            THEN AvoidDoublePeriod(self, formatted, kw2, 1)
            ELSE formatted

\* The label format_previous_responses gives the i-th response (0-based).
ResponseLabel(i) == "Response " \o ToString(i) \o ": "

RECURSIVE JoinLabelled(_, _, _)
JoinLabelled(responses, agent_names, i) ==
    IF i > Len(responses) THEN <<>>
    ELSE <<IF agent_names # <<>> THEN agent_names[i] \o ": " ELSE ResponseLabel(i - 1)>>
         \o PyStr(responses[i]) \o <<NL>>
         \o JoinLabelled(responses, agent_names, i + 1)

\* helpers.format_previous_responses(responses, agent_names); agent_names is
\* <<>> when the argument is absent.
format_previous_responses(responses, agent_names) ==
    IF responses = <<>> THEN <<>>
    ELSE Strip(JoinLabelled(responses,
                 IF agent_names # <<>> /\ Len(agent_names) = Len(responses)
                 THEN agent_names ELSE <<>>, 1))

\* ------------------------------------------------------------------- state

VARIABLES
    pc,         \* where the caller is: "new", "failed", "constructed", inside process(), "done", "raised"
    err,        \* the exception that ended construction or process(), "none" if none
    kind,       \* "Chain", "Ensemble", "Debate" or "Graph"
    args,       \* the constructor's arguments, as the caller passed them
    agents0,    \* the participants as they were before the Structure was built
    agents,     \* the Agent objects, by identity
    moderator,  \* the Moderator object (meaningful when args.has_moderator)
    st,         \* the Structure's own attributes
    loc,        \* the local variables of process()
    calls,      \* every Agent.process call made by process(), in the order issued
    warnings    \* the warnings issued so far

vars == <<pc, err, kind, args, agents0, agents, moderator, st, loc, calls, warnings>>

\* Words of the texts the caller supplies.
StructureTask == <<"T">>
OwnTask == <<"own_task">>
OwnCI == <<"own_ci", "${previous_responses}">>
OwnSys == <<"persona", "${task}">>

\* DEFAULTS['combination_instructions']: the preset table of instructions.yaml,
\* by preset name.  A preset's template is opaque apart from its placeholder.
PresetNames == {"default", "chain", "debate", "voting"}
PresetTemplate(name) == <<"preset_" \o name, "${previous_responses}">>

\* DEFAULTS['moderator']['combination_instructions'].
ModeratorPresetTemplate(name) == <<"mod_preset_" \o name, "${previous_responses}">>

IsPresetName(key) == key # NoneVal /\ Len(key) = 1 /\ key[1] \in PresetNames

\* self.defaults['combination_instructions'].get(key, key)
PresetGet(key) == IF IsPresetName(key) THEN PresetTemplate(key[1]) ELSE key

\* DEFAULTS["moderator"]['combination_instructions'].get(key, key)
ModeratorPresetGet(key) == IF IsPresetName(key) THEN ModeratorPresetTemplate(key[1]) ELSE key

\* Agent.__init__: the attributes of a new Agent the model follows.
NewAgent(task, combination_instructions, system_instructions) ==
    [ task_description |-> task,
      original_task_description |-> task,
      current_task_description |-> task,
      combination_instructions |-> combination_instructions,
      system_instructions |-> system_instructions,
      history |-> <<>> ]

\* Moderator.__init__ for a moderator given a persona, or the system
\* instructions 'auto', and the combination instructions preset 'default'.
NewModerator(task, persona, system_instructions) ==
    [ task |-> task,
      task_description |-> task,
      original_task_description |-> task,
      current_task_description |-> task,
      persona |-> persona,
      persona_template |->
          IF Truthy(persona) /\ ~Truthy(system_instructions)
          THEN <<"${persona}">> ELSE NoneVal,
      system_instructions |->
          IF Truthy(persona) /\ ~Truthy(system_instructions)
          THEN Strip(PyStr(SmartFormat(SmartString(<<"${persona}">>),
                       <<<<"persona", persona>>, <<"task", task>>>>, TRUE)))
          ELSE system_instructions,
      combination_instructions |-> ModeratorPresetGet(<<"default">>),
      history |-> <<>> ]

\* The names of a Graph's participants in dict form, in key order, and the
\* position (0-based) of a name in that order.
AgentName(i) == "agent" \o ToString(i)
AgentKeys(n) == [i \in 1..n |-> AgentName(i - 1)]

\* The local variables of process() before it is entered.
NoLocals ==
    [ cycle |-> 0, i |-> 0, previous_responses |-> <<>>,
      previous_responses_agent1 |-> <<>>, previous_responses_agent2 |-> <<>>,
      futures |-> <<>>, zero_in_degree_queue |-> <<>>, topological_order |-> <<>>,
      response_dict |-> <<>> ]

\* The state before the constructor runs.
Fresh(k, cfgs, a) ==
    /\ pc = "new"
    /\ err = "none"
    /\ kind = k
    /\ args = a
    /\ agents0 = cfgs
    /\ agents = cfgs
    /\ moderator = a.moderator
    /\ st = [ task |-> NoneVal, combination_instructions |-> NoneVal,
              agents |-> <<>>, cycles |-> 1, last_n |-> 1, shuffle |-> FALSE,
              responses |-> <<>>, final_response |-> NoneVal, moderated |-> FALSE,
              edges |-> <<>>, graph |-> <<>>, in_degree |-> <<>> ]
    /\ loc = NoLocals
    /\ calls = <<>>
    /\ warnings = <<>>

\* ------------------------------------------------------------ construction

\* AbstractStructure._set_combination_instructions, the resolved value.
ResolveCombinationInstructions(ci) == SmartString(PresetGet(ci))

\* AbstractStructure._set_combination_instructions, the loop body.
InheritCombinationInstructions(a, resolved) ==
    IF Truthy(a.combination_instructions) THEN a
    ELSE [a EXCEPT !.combination_instructions = resolved]

\* A faulty variant of SetAgentTask: a participant with a task of its own
\* keeps it (what the warning's text announces).
SetAgentTaskKeepOwn(a, task) ==
    LET kept == IF Truthy(a.task_description) THEN a.task_description ELSE task
    IN [a EXCEPT !.task_description = kept,
                 !.original_task_description = kept,
                 !.system_instructions =
                     SmartFormat(SmartString(a.system_instructions), <<<<"task", task>>>>, TRUE)]

\* AbstractStructure._set_agent_task_description, the loop body when the
\* Structure has a task (cases 1 and 3).
SetAgentTask(a, task) ==
    [a EXCEPT !.task_description = task,
              !.original_task_description = task,
              !.system_instructions =
                  SmartFormat(SmartString(a.system_instructions), <<<<"task", task>>>>, TRUE)]

\* A faulty variant of LacksTask: the test for a blank task left out.
LacksTaskNoStrip(a) == ~Truthy(a.task_description)

\* AbstractStructure._set_agent_task_description, the test of case 2.
LacksTask(a) == ~Truthy(a.task_description) \/ Strip(a.task_description) = <<>>

\* A faulty variant of SetModeratorTask: the Structure's task replaces the
\* Moderator's own.
SetModeratorTaskOverride(m, task) ==
    [m EXCEPT !.task = task,
              !.task_description = task,
              !.system_instructions =
                  IF Truthy(m.system_instructions)
                  THEN SmartFormat(SmartString(m.system_instructions), <<<<"task", task>>>>, TRUE)
                  ELSE NoneVal]

\* The instructions Moderator.generate_system_instructions(task) returns
\* when a generation call validates: a text the LLM wrote for that task.
GeneratedInstructions(task) == <<"generated", "for">> \o PyStr(task)

\* AbstractStructure._set_moderator_task_description when the Structure has a task.
SetModeratorTask(m, task) ==
    [m EXCEPT !.task = IF Truthy(m.task) THEN m.task ELSE task,
              !.task_description = task,
              !.system_instructions =
                  IF Truthy(m.system_instructions)
                  THEN SmartFormat(SmartString(m.system_instructions), <<<<"task", task>>>>, TRUE)
                  ELSE NoneVal]

\* seq[i] for a Python index i into a list of length n, as a position 1..n
\* (0 when the index is out of range).
PyIndex(i, n) == IF 0 <= i /\ i < n THEN i + 1 ELSE IF -n <= i /\ i < 0 THEN n + i + 1 ELSE 0

\* Graph._validate_input_format, checks of the edges from edge k on: the
\* error of the first edge that fails, "none" if none fails.
RECURSIVE ValidateEdges(_, _, _, _)
ValidateEdges(form, n, edges, k) ==
    IF k > Len(edges) THEN "none"
    ELSE LET src == edges[k][1]
             dst == edges[k][2]
         IN IF form = "list"
            THEN IF src >= n \/ dst >= n THEN "edge_range"
                 ELSE IF src = dst THEN "self_loop"
                 ELSE ValidateEdges(form, n, edges, k + 1)
            ELSE IF (\A i \in 1..n : AgentKeys(n)[i] # src) \/ (\A i \in 1..n : AgentKeys(n)[i] # dst)
                 THEN "edge_names"
                 ELSE ValidateEdges(form, n, edges, k + 1)

\* name2idx of Graph.__init__.
name2idx(n, name) == (CHOOSE i \in 1..n : AgentKeys(n)[i] = name) - 1

\* Graph.__init__: self.edges, index pairs in both forms.
IndexEdges(form, n, edges) ==
    IF form = "dict"
    THEN [k \in 1..Len(edges) |-> <<name2idx(n, edges[k][1]), name2idx(n, edges[k][2])>>]
    ELSE edges

\* Graph._build_graph: self.graph and self.in_degree after the edges up to k.
RECURSIVE BuildGraph(_, _, _)
BuildGraph(ids, edges, k) ==
    IF k = 0
    THEN [ graph |-> [a \in 1..Len(ids) |-> <<>>], in_degree |-> [a \in 1..Len(ids) |-> 0] ]
    ELSE LET g == BuildGraph(ids, edges, k - 1)
             src_agent == ids[PyIndex(edges[k][1], Len(ids))]
             dst_agent == ids[PyIndex(edges[k][2], Len(ids))]
         IN [ graph |-> [g.graph EXCEPT ![src_agent] = Append(@, dst_agent)],
              in_degree |-> [g.in_degree EXCEPT ![dst_agent] = @ + 1] ]

\* Graph._build_graph: whether self.agents[idx] raises IndexError for an
\* endpoint of some edge.
EdgeIndexError(edges, n) ==
    \E k \in 1..Len(edges) : PyIndex(edges[k][1], n) = 0 \/ PyIndex(edges[k][2], n) = 0

\* The permutations of 1..n, as sequences: the results of random.sample(l, len(l)).
SampleOrders(n) == {p \in [1..n -> 1..n] : \A i, j \in 1..n : i # j => p[i] # p[j]}

\* A faulty variant of NotTwoAgents: only more than two agents are refused.
MoreThanTwoAgents(n) == n > 2

\* Debate.__init__: the test that refuses the agents.
NotTwoAgents(n) == n # 2

\* The constructors: Debate.__init__ / Graph.__init__, then
\* AbstractStructure.__init__.  perm is the order random.sample draws, gen
\* whether Moderator.generate_system_instructions gets a valid answer.
Constructed(perm, gen) ==
    LET n == Len(args.agents)
        task == args.task
        own == IF kind = "Debate" /\ NotTwoAgents(n) THEN "debate_two_agents"
               ELSE IF kind = "Graph" THEN ValidateEdges(args.form, n, args.edges, 1)
               ELSE "none"
        resolved == ResolveCombinationInstructions(args.combination_instructions)
        agents1 == [a \in 1..n |-> InheritCombinationInstructions(agents[a], resolved)]
        agents2 == IF Truthy(task) THEN [a \in 1..n |-> SetAgentTask(agents1[a], task)]
                   ELSE agents1
        warn2 == IF Truthy(task)
                 THEN SelectSeq(args.agents, LAMBDA a : Truthy(agents[a].task_description))
                 ELSE <<>>
        m1 == IF Truthy(task) THEN SetModeratorTask(moderator, task) ELSE moderator
        m2 == [m1 EXCEPT !.system_instructions =
                  IF @ = <<"auto">> THEN GeneratedInstructions(m1.task) ELSE @]
        m3 == [m2 EXCEPT !.task_description = task,
                         !.persona = IF Truthy(m2.persona)
                                     THEN SmartFormat(SmartString(m2.persona),
                                                      <<<<"task", m2.task>>>>, TRUE)
                                     ELSE NoneVal]
        warn3 == IF args.has_moderator /\ Truthy(task) /\ Truthy(moderator.task)
                 THEN <<0>> ELSE <<>>
        edges == IF kind = "Graph" THEN IndexEdges(args.form, n, args.edges) ELSE <<>>
        ids == IF args.shuffle THEN [i \in 1..n |-> args.agents[perm[i]]] ELSE args.agents
        g == BuildGraph(ids, edges, Len(edges))
        fail(e, ags, m, w) == [ err |-> e, agents |-> ags, moderator |-> m, warnings |-> w, st |-> st ]
    IN  IF own # "none" THEN fail(own, agents, moderator, <<>>)
        ELSE IF n = 0 THEN fail("empty_agents", agents, moderator, <<>>)
        ELSE IF ~Truthy(task) /\ \E a \in 1..n : LacksTask(agents1[a])
             THEN fail("no_task", agents1, moderator, <<>>)
        ELSE IF args.cycles < 1 THEN fail("cycles", agents2, moderator, warn2)
        ELSE IF args.last_n < 1 THEN fail("last_n", agents2, moderator, warn2)
        ELSE IF args.has_moderator /\ ~Truthy(task)
                /\ (~Truthy(moderator.task) \/ Strip(moderator.task) = <<>>)
             THEN fail("moderator_no_task", agents2, moderator, warn2)
        ELSE IF args.has_moderator /\ m1.system_instructions = <<"auto">> /\ ~gen
             THEN fail("auto_failed", agents2, m1, warn2 \o warn3)
        ELSE IF kind = "Graph" /\ EdgeIndexError(edges, n)
             THEN fail("IndexError", agents2,
                       IF args.has_moderator THEN m3 ELSE moderator, warn2 \o warn3)
        ELSE [ err |-> "none",
               agents |-> agents2,
               moderator |-> IF args.has_moderator THEN m3 ELSE moderator,
               warnings |-> warn2 \o warn3,
               st |-> [ st EXCEPT !.task = task,
                                  !.combination_instructions = resolved,
                                  !.agents = ids,
                                  !.cycles = args.cycles,
                                  !.last_n = args.last_n,
                                  !.shuffle = args.shuffle,
                                  !.moderated = args.has_moderator,
                                  !.edges = edges,
                                  !.graph = IF kind = "Graph" THEN g.graph ELSE <<>>,
                                  !.in_degree = IF kind = "Graph" THEN g.in_degree ELSE <<>> ] ]

\* The caller builds the Structure.
Construct ==
    /\ pc = "new"
    /\ \E perm \in (IF args.shuffle THEN SampleOrders(Len(args.agents))
                    ELSE {[i \in 1..Len(args.agents) |-> i]}) :
       \E gen \in (IF args.has_moderator /\ moderator.system_instructions = <<"auto">>
                   THEN BOOLEAN ELSE {TRUE}) :
       \E r \in {Constructed(perm, gen)} :
            /\ pc' = IF r.err = "none" THEN "constructed" ELSE "failed"
            /\ err' = r.err
            /\ agents' = r.agents
            /\ moderator' = r.moderator
            /\ warnings' = r.warnings
            /\ st' = r.st
    /\ UNCHANGED <<kind, args, agents0, loc, calls>>

\* ------------------------------------------------------- Agent.process

\* Agent.process, the request it builds (self.current_task_description) from
\* the context previous_responses; NoneVal stands for the AttributeError of
\* None.strip().
CurrentTaskDescription(a, previous_responses) ==
    IF previous_responses # <<>>
    THEN LET combined_responses ==
                 SmartFormat(SmartString(a.combination_instructions),
                             <<<<"previous_responses", previous_responses>>>>, TRUE)
             base == IF Truthy(a.current_task_description)
                     THEN a.current_task_description
                     ELSE a.original_task_description
         IN Strip(SmartString(PyStr(base) \o <<NL>> \o PyStr(combined_responses)))
    ELSE IF a.original_task_description = NoneVal THEN NoneVal
         ELSE Strip(a.original_task_description)

\* A faulty variant of GetResponse: a failed call is recorded too.
GetResponseRecordingFailures(a, task, content) ==
    [a EXCEPT !.history = Append(@,
        [ system |-> IF Truthy(a.system_instructions) THEN a.system_instructions ELSE NoneVal,
          user |-> task, response |-> content ])]

\* Agent._get_response: content is the text the LLM returns, NoneVal when
\* the completion call raises (the exception is caught and None returned).
GetResponse(a, task, content) ==
    IF content = NoneVal THEN a
    ELSE [a EXCEPT !.history = Append(@,
             [ system |-> IF Truthy(a.system_instructions) THEN a.system_instructions ELSE NoneVal,
               user |-> task, response |-> content ])]

\* Agent.process as a whole: the agent afterwards.
AgentProcess(a, previous_responses, content) ==
    LET task == CurrentTaskDescription(a, previous_responses)
    IN GetResponse([a EXCEPT !.current_task_description = task], task, content)

\* The text the LLM returns to participant a on its n-th call.
ResponseText(a, n) == <<"r" \o ToString(a) \o "_" \o ToString(n)>>

\* The calls participant a has made so far.
CallsBy(a) == Len(SelectSeq(calls, LAMBDA c : c.agent = a))

\* The completion calls that have failed so far.
FailedCalls == Len(SelectSeq(calls, LAMBDA c : c.response = NoneVal))

\* A task that has the LLM quote the transcript it was shown, labels included.
EchoTask == <<"quote", "the", "transcript">>

\* The speaker labels a Structure writes into transcripts.
TranscriptLabels ==
    {"[WHAT YOU SAID]: ", "[WHAT OTHER PARTICIPANT SAID]: ", "[Debater 1] ", "[Debater 2] "}

\* The texts the LLM can return on such a task besides a plain one: its
\* text behind a label of the transcript.
Echoes(a, n) ==
    IF st.task = EchoTask /\ a # 0
    THEN { <<label>> \o ResponseText(a, n) : label \in TranscriptLabels }
    ELSE {}

\* What the n-th completion call of participant a can give: a text, or a
\* failure (Agent._get_response then returns None).
Outcomes(a, n) ==
    {ResponseText(a, n)} \cup Echoes(a, n)
        \cup (IF FailedCalls < MaxFailures THEN {NoneVal} ELSE {})

\* A call handed to the thread pool that has not run yet.
Pending == <<"<pending>">>

\* The record of one Agent.process call kept in calls.
Call(a, cycle, position, context, before, after, response) ==
    [ agent |-> a, cycle |-> cycle, position |-> position, context |-> context,
      template |-> before.combination_instructions,
      request |-> after.current_task_description, response |-> response ]

\* A faulty variant of LastN: lst[:k], the oldest entries instead of the newest.
LastNOldest(lst, k) ==
    IF k >= Len(lst) THEN lst ELSE SubSeq(lst, 1, k)

\* lst[-k:]
LastN(lst, k) ==
    IF k = 0 \/ k >= Len(lst) THEN lst ELSE SubSeq(lst, Len(lst) - k + 1, Len(lst))

\* ----------------------------------------------------------- process()

\* A faulty variant of ZeroInDegree: the in-degree test left out, so that
\* every participant starts in the queue.
ZeroInDegreeUnfiltered(agent_list, in_degree) == agent_list

\* Graph.process: the queue Kahn's algorithm starts from.
ZeroInDegree(agent_list, in_degree) ==
    SelectSeq(agent_list, LAMBDA agent : in_degree[agent] = 0)

\* The caller enters process().
Begin ==
    /\ pc = "constructed"
    /\ pc' = IF kind = "Graph" THEN "schedule" ELSE "run"
    /\ loc' = [ NoLocals EXCEPT !.zero_in_degree_queue =
                  IF kind = "Graph" THEN ZeroInDegree(st.agents, st.in_degree) ELSE <<>> ]
    /\ UNCHANGED <<err, kind, args, agents0, agents, moderator, st, calls, warnings>>

\* Chain.process: what the loop body does to one participant before the call.
ChainPrepare(a, combination_instructions) ==
    [a EXCEPT !.current_task_description = NoneVal,
              !.combination_instructions = combination_instructions]

\* Chain.process: one pass of the inner loop (with the shuffle that opens a cycle).
ChainStep ==
    /\ pc = "run" /\ kind = "Chain"
    /\ loc.cycle < st.cycles
    /\ \E perm \in (IF st.shuffle /\ loc.i = 0 THEN SampleOrders(Len(st.agents))
                    ELSE {[k \in 1..Len(st.agents) |-> k]}) :
       LET order == [k \in 1..Len(st.agents) |-> st.agents[perm[k]]]
           agent == order[loc.i + 1]
           before == ChainPrepare(agents[agent], st.combination_instructions)
           previous_responses_str ==
               format_previous_responses(LastN(loc.previous_responses, st.last_n), <<>>)
           last == loc.i + 1 = Len(order)
       IN \E response \in Outcomes(agent, CallsBy(agent) + 1) :
          \E after \in {AgentProcess(before, previous_responses_str, response)} :
            /\ agents' = [agents EXCEPT ![agent] = after]
            /\ calls' = Append(calls, Call(agent, loc.cycle, loc.i, previous_responses_str,
                                           before, after, response))
            /\ st' = [st EXCEPT !.agents = order, !.responses = Append(@, response)]
            /\ loc' = [loc EXCEPT !.previous_responses = Append(@, response),
                                  !.i = IF last THEN 0 ELSE loc.i + 1,
                                  !.cycle = IF last THEN loc.cycle + 1 ELSE loc.cycle]
            /\ pc' = IF last /\ loc.cycle + 1 = st.cycles THEN "moderate" ELSE "run"
    /\ UNCHANGED <<err, kind, args, agents0, moderator, warnings>>

\* A dict, as the sequence of its <<key, value>> items in insertion order.
DictHas(d, key) == \E k \in 1..Len(d) : d[k][1] = key
DictGet(d, key) == d[CHOOSE k \in 1..Len(d) : d[k][1] = key][2]
\* A faulty variant of DictValues: the values in the order of their keys.
DictValuesByKey(d) ==
    LET keys == {d[k][1] : k \in 1..Len(d)}
    IN [k \in 1..Len(d) |->
           DictGet(d, CHOOSE x \in keys : Cardinality({y \in keys : y < x}) = k - 1)]
DictValues(d) == [k \in 1..Len(d) |-> d[k][2]]

\* Ensemble.process: the submit loop of one cycle.  Every participant gets
\* the Structure's combination instructions and its call is handed to the pool.
EnsemblePrepare(a, combination_instructions) ==
    [a EXCEPT !.combination_instructions = combination_instructions]

\* A faulty variant of EnsembleContext: the call is given the responses
\* collected so far.
EnsembleContextOfResponses(responses) == format_previous_responses(responses, <<>>)

\* previous_responses_str of a call an Ensemble submits: the empty string,
\* whatever responses holds.
EnsembleContext(responses) == <<>>

EnsembleSubmit ==
    /\ pc = "run" /\ kind = "Ensemble"
    /\ loc.futures = <<>>
    /\ agents' = [a \in DOMAIN agents |->
                     EnsemblePrepare(agents[a], st.combination_instructions)]
    /\ calls' = calls \o
                  [k \in 1..Len(st.agents) |->
                      Call(st.agents[k], loc.cycle, k - 1, EnsembleContext(st.responses),
                           EnsemblePrepare(agents[st.agents[k]], st.combination_instructions),
                           [current_task_description |-> Pending], Pending)]
    /\ loc' = [loc EXCEPT !.futures =
                  [k \in 1..Len(st.agents) |-> [state |-> "running", result |-> NoneVal]]]
    /\ UNCHANGED <<pc, err, kind, args, agents0, moderator, st, warnings>>

\* A faulty variant of EnsembleRun: the pool thread appends its result to
\* the shared responses itself.
EnsembleRunAppending(k) ==
    /\ pc = "run" /\ kind = "Ensemble"
    /\ k \in DOMAIN loc.futures
    /\ loc.futures[k].state = "running"
    /\ LET agent == st.agents[k]
           entry == Len(calls) - Len(loc.futures) + k
       IN \E response \in Outcomes(agent, CallsBy(agent)) :
          \E after \in {AgentProcess(agents[agent], calls[entry].context, response)} :
            /\ agents' = [agents EXCEPT ![agent] = after]
            /\ calls' = [calls EXCEPT ![entry] =
                            Call(agent, loc.cycle, k - 1, calls[entry].context,
                                 agents[agent], after, response)]
            /\ loc' = [loc EXCEPT !.futures[k] = [state |-> "done", result |-> response]]
            /\ st' = [st EXCEPT !.responses = Append(@, response)]
    /\ UNCHANGED <<pc, err, kind, args, agents0, moderator, warnings>>

\* A pool thread runs the call submitted at position k to its end; the
\* call's entry in calls is the one EnsembleSubmit made for it.
EnsembleRun(k) ==
    /\ pc = "run" /\ kind = "Ensemble"
    /\ k \in DOMAIN loc.futures
    /\ loc.futures[k].state = "running"
    /\ LET agent == st.agents[k]
           entry == Len(calls) - Len(loc.futures) + k
       IN \E response \in Outcomes(agent, CallsBy(agent)) :
          \E after \in {AgentProcess(agents[agent], calls[entry].context, response)} :
            /\ agents' = [agents EXCEPT ![agent] = after]
            /\ calls' = [calls EXCEPT ![entry] =
                            Call(agent, loc.cycle, k - 1, calls[entry].context,
                                 agents[agent], after, response)]
            /\ loc' = [loc EXCEPT !.futures[k] = [state |-> "done", result |-> response]]
    /\ UNCHANGED <<pc, err, kind, args, agents0, moderator, st, warnings>>

\* Which of the finished futures as_completed may yield next, given the
\* futures list: any one that is finished and not yet yielded.
AsCompleted(futures) == {k \in DOMAIN futures : futures[k].state = "done"}

\* A faulty variant of EnsembleCollect: the result of a failed call is dropped.
EnsembleCollectSkippingNone ==
    /\ pc = "run" /\ kind = "Ensemble"
    /\ \E k \in AsCompleted(loc.futures) :
       LET futures == [loc.futures EXCEPT ![k].state = "yielded"]
           cycle_over == \A j \in DOMAIN futures : futures[j].state = "yielded"
       IN /\ st' = IF loc.futures[k].result = NoneVal THEN st
                   ELSE [st EXCEPT !.responses = Append(@, loc.futures[k].result)]
          /\ loc' = [loc EXCEPT !.futures = IF cycle_over THEN <<>> ELSE futures,
                                !.cycle = IF cycle_over THEN loc.cycle + 1 ELSE loc.cycle]
          /\ pc' = IF cycle_over /\ loc.cycle + 1 = st.cycles THEN "moderate" ELSE "run"
    /\ UNCHANGED <<err, kind, args, agents0, agents, moderator, calls, warnings>>

\* A faulty variant of EnsembleCollect: the cycle is over with the first
\* result, the other calls of the cycle are not waited for.
EnsembleCollectFirstOnly ==
    /\ pc = "run" /\ kind = "Ensemble"
    /\ \E k \in AsCompleted(loc.futures) :
          /\ st' = [st EXCEPT !.responses = Append(@, loc.futures[k].result)]
          /\ loc' = [loc EXCEPT !.futures = <<>>, !.cycle = loc.cycle + 1]
          /\ pc' = IF loc.cycle + 1 = st.cycles THEN "moderate" ELSE "run"
    /\ UNCHANGED <<err, kind, args, agents0, agents, moderator, calls, warnings>>

\* The coordinating thread takes the next future from as_completed and
\* appends its result; after the last one the cycle ends.
EnsembleCollect ==
    /\ pc = "run" /\ kind = "Ensemble"
    /\ \E k \in AsCompleted(loc.futures) :
       LET futures == [loc.futures EXCEPT ![k].state = "yielded"]
           cycle_over == \A j \in DOMAIN futures : futures[j].state = "yielded"
       IN /\ st' = [st EXCEPT !.responses = Append(@, loc.futures[k].result)]
          /\ loc' = [loc EXCEPT !.futures = IF cycle_over THEN <<>> ELSE futures,
                                !.cycle = IF cycle_over THEN loc.cycle + 1 ELSE loc.cycle]
          /\ pc' = IF cycle_over /\ loc.cycle + 1 = st.cycles THEN "moderate" ELSE "run"
    /\ UNCHANGED <<err, kind, args, agents0, agents, moderator, calls, warnings>>

\* The labels of a Debate.
YouSaid == "[WHAT YOU SAID]: "
OtherSaid == "[WHAT OTHER PARTICIPANT SAID]: "
\* A faulty variant of Debater: the label counts the debaters from 0.
DebaterZeroBased(i) == "[Debater " \o ToString(i - 1) \o "] "
Debater(i) == "[Debater " \o ToString(i) \o "] "

RECURSIVE JoinLines(_, _)
JoinLines(responses, i) ==
    IF i > Len(responses) THEN <<>>
    ELSE <<NL>> \o PyStr(responses[i]) \o JoinLines(responses, i + 1)

\* Debate._format_previous_responses
DebateFormat(responses) ==
    IF responses = <<>> THEN <<>> ELSE Strip(JoinLines(responses, 1))

\* Debate._strip_placeholders
StripPlaceholders(response) ==
    Replace(Replace(response, <<YouSaid>>, <<>>), <<OtherSaid>>, <<>>)

\* Debate.process: what the loop body does to the participant before the call.
DebatePrepare(a, combination_instructions) ==
    [a EXCEPT !.current_task_description = NoneVal,
              !.combination_instructions = combination_instructions]

\* A faulty variant of DebateView: each debater is shown the other's view.
DebateViewSwapped(i) ==
    IF i = 0 THEN loc.previous_responses_agent2 ELSE loc.previous_responses_agent1

\* Debate.process: the view whose window debater i (0 or 1) is shown.
DebateView(i) ==
    IF i = 0 THEN loc.previous_responses_agent1 ELSE loc.previous_responses_agent2

\* Debate.process: one turn.  A failed call ends process() with the
\* AttributeError of None.replace.
DebateStep ==
    /\ pc = "run" /\ kind = "Debate"
    /\ loc.cycle < st.cycles
    /\ LET i == loc.i
           agent == st.agents[i + 1]
           before == DebatePrepare(agents[agent], st.combination_instructions)
           previous_responses_str == DebateFormat(LastN(DebateView(i), st.last_n))
           last == i + 1 = Len(st.agents)
       IN \E content \in Outcomes(agent, CallsBy(agent) + 1) :
          \E after \in {AgentProcess(before, previous_responses_str, content)} :
            /\ agents' = [agents EXCEPT ![agent] = after]
            /\ calls' = Append(calls, Call(agent, loc.cycle, i, previous_responses_str,
                                           before, after, content))
            /\ IF content = NoneVal
               THEN /\ pc' = "raised"
                    /\ err' = "AttributeError"
                    /\ UNCHANGED <<st, loc>>
               ELSE LET response == StripPlaceholders(content)
                        mine == <<YouSaid>> \o response
                        theirs == <<OtherSaid>> \o response
                    IN /\ st' = [st EXCEPT !.responses = Append(@, <<Debater(i + 1)>> \o response)]
                       /\ loc' = [loc EXCEPT
                             !.previous_responses_agent1 = Append(@, IF i = 0 THEN mine ELSE theirs),
                             !.previous_responses_agent2 = Append(@, IF i = 0 THEN theirs ELSE mine),
                             !.i = IF last THEN 0 ELSE i + 1,
                             !.cycle = IF last THEN loc.cycle + 1 ELSE loc.cycle]
                       /\ pc' = IF last /\ loc.cycle + 1 = st.cycles THEN "moderate" ELSE "run"
                       /\ UNCHANGED err
    /\ UNCHANGED <<kind, args, agents0, moderator, warnings>>

\* A faulty variant of Relax: a successor is queued on every decrement, not
\* only when its in-degree has come down to 0.
RECURSIVE RelaxAlways(_, _, _)
RelaxAlways(s, successors, k) ==
    IF k > Len(successors) THEN s
    ELSE LET successor == successors[k]
             d == s.in_degree[successor] - 1
         IN RelaxAlways([ in_degree |-> [s.in_degree EXCEPT ![successor] = d],
                          queue |-> Append(s.queue, successor) ],
                        successors, k + 1)

\* Graph.process, Kahn's algorithm: the loop over the successors of the
\* popped agent, from successor k on.  s holds in_degree and the queue.
RECURSIVE Relax(_, _, _)
Relax(s, successors, k) ==
    IF k > Len(successors) THEN s
    ELSE LET successor == successors[k]
             d == s.in_degree[successor] - 1
         IN Relax([ in_degree |-> [s.in_degree EXCEPT ![successor] = d],
                    queue |-> IF d = 0 THEN Append(s.queue, successor) ELSE s.queue ],
                  successors, k + 1)

\* Graph.process, Kahn's algorithm: one pass of the while loop.
GraphPop ==
    /\ pc = "schedule"
    /\ loc.zero_in_degree_queue # <<>>
    /\ LET current_agent == Head(loc.zero_in_degree_queue)
           s == Relax([ in_degree |-> st.in_degree, queue |-> Tail(loc.zero_in_degree_queue) ],
                      st.graph[current_agent], 1)
       IN /\ loc' = [loc EXCEPT !.zero_in_degree_queue = s.queue,
                                !.topological_order = Append(@, current_agent)]
          /\ st' = [st EXCEPT !.in_degree = s.in_degree]
    /\ UNCHANGED <<pc, err, kind, args, agents0, agents, moderator, calls, warnings>>

\* A faulty variant of CycleDetected: the comparison the wrong way round.
CycleDetectedLonger(topological_order, agent_list) ==
    Len(topological_order) > Len(agent_list)

\* Graph.process: the test that follows the while loop.
CycleDetected(topological_order, agent_list) == Len(topological_order) # Len(agent_list)

GraphCheck ==
    /\ pc = "schedule"
    /\ loc.zero_in_degree_queue = <<>>
    /\ IF CycleDetected(loc.topological_order, st.agents)
       THEN pc' = "raised" /\ err' = "cycle"
       ELSE pc' = "run" /\ UNCHANGED err
    /\ UNCHANGED <<kind, args, agents0, agents, moderator, st, loc, calls, warnings>>

\* A faulty variant of Predecessors: every participant that has answered so
\* far, as in a Chain, instead of the direct predecessors.
PredecessorsAllEarlier(agent) ==
    SelectSeq(st.agents, LAMBDA pred : DictHas(loc.response_dict, pred))

\* Graph.process: the predecessors whose responses an agent is given.
Predecessors(agent) ==
    SelectSeq(st.agents, LAMBDA pred : \E k \in 1..Len(st.graph[pred]) : st.graph[pred][k] = agent)

\* Graph.process: what the loop body does to the participant before the call.
GraphPrepare(a, combination_instructions) ==
    [a EXCEPT !.combination_instructions = combination_instructions]

\* Graph.process: one pass of the loop over the topological order.  A
\* predecessor without a response ends process() with a KeyError.
GraphStep ==
    /\ pc = "run" /\ kind = "Graph"
    /\ LET agent == loc.topological_order[loc.i + 1]
           before == GraphPrepare(agents[agent], st.combination_instructions)
           preds == Predecessors(agent)
           last == loc.i + 1 = Len(loc.topological_order)
       IN IF \E k \in 1..Len(preds) : ~DictHas(loc.response_dict, preds[k])
          THEN /\ pc' = "raised"
               /\ err' = "KeyError"
               /\ agents' = [agents EXCEPT ![agent] = before]
               /\ UNCHANGED <<st, loc, calls>>
          ELSE LET previous_responses ==
                       [k \in 1..Len(preds) |-> DictGet(loc.response_dict, preds[k])]
                   previous_responses_str == format_previous_responses(previous_responses, <<>>)
               IN \E response \in Outcomes(agent, CallsBy(agent) + 1) :
                  \E after \in {AgentProcess(before, previous_responses_str, response)} :
                    /\ agents' = [agents EXCEPT ![agent] = after]
                    /\ calls' = Append(calls, Call(agent, 0, loc.i, previous_responses_str,
                                                   before, after, response))
                    /\ st' = [st EXCEPT !.responses = Append(@, response)]
                    /\ loc' = [loc EXCEPT !.response_dict = Append(@, <<agent, response>>),
                                          !.i = loc.i + 1]
                    /\ pc' = IF last THEN "moderate" ELSE "run"
                    /\ UNCHANGED err
    /\ UNCHANGED <<kind, args, agents0, moderator, warnings>>

\* Moderator._moderate_responses: the moderator once its templates are filled in.
ModeratorPrepare(m, responses) ==
    LET combined_responses_str == format_previous_responses(responses, <<>>)
    IN [m EXCEPT !.combination_instructions =
                     SmartFormat(SmartString(m.combination_instructions),
                                 << <<"previous_responses", combined_responses_str>>,
                                    <<"task", m.task>> >>, TRUE),
                 !.system_instructions =
                     IF Truthy(m.system_instructions)
                     THEN SmartFormat(SmartString(m.system_instructions),
                                      << <<"task", m.task>>,
                                         <<"previous_responses", combined_responses_str>>,
                                         <<"persona", m.persona>> >>, TRUE)
                     ELSE m.system_instructions]

\* The agent identity under which the moderator's calls are recorded.
ModeratorId == 0

\* A faulty variant of Moderate: the moderator's result becomes the final
\* response without being appended to responses.
ModerateWithoutAppend ==
    /\ pc = "moderate"
    /\ IF st.moderated
       THEN LET responses == IF kind = "Graph"
                             THEN DictValues(loc.response_dict)
                             ELSE st.responses
                before == ModeratorPrepare(moderator, responses)
                context == format_previous_responses(responses, <<>>)
            IN \E response \in Outcomes(ModeratorId, 1) :
               \E after \in {AgentProcess(before, context, response)} :
                 /\ moderator' = after
                 /\ calls' = Append(calls, Call(ModeratorId, loc.cycle, 0, context,
                                                before, after, response))
                 /\ st' = [st EXCEPT !.final_response = response]
       ELSE UNCHANGED <<moderator, calls, st>>
    /\ pc' = "final"
    /\ UNCHANGED <<err, kind, args, agents0, agents, loc, warnings>>

\* A faulty variant of Moderate: the moderator is asked a second time.
ModerateTwice ==
    /\ pc = "moderate"
    /\ IF st.moderated
       THEN LET responses == IF kind = "Graph"
                             THEN DictValues(loc.response_dict)
                             ELSE st.responses
                before == ModeratorPrepare(moderator, responses)
                context == format_previous_responses(responses, <<>>)
            IN \E response \in Outcomes(ModeratorId, 1) :
               \E after \in {AgentProcess(before, context, response)} :
                 /\ moderator' = after
                 /\ calls' = Append(calls, Call(ModeratorId, loc.cycle, 0, context,
                                                before, after, response))
                 /\ st' = [st EXCEPT !.responses = Append(@, response)]
       ELSE UNCHANGED <<moderator, calls, st>>
    /\ pc' = IF st.moderated /\ CallsBy(ModeratorId) = 0 THEN "moderate" ELSE "final"
    /\ UNCHANGED <<err, kind, args, agents0, agents, loc, warnings>>

\* The end of process(): the moderator, when there is one, gets the responses.
Moderate ==
    /\ pc = "moderate"
    /\ IF st.moderated
       THEN LET responses == IF kind = "Graph"
                             THEN DictValues(loc.response_dict)
                             ELSE st.responses
                before == ModeratorPrepare(moderator, responses)
                context == format_previous_responses(responses, <<>>)
            IN \E response \in Outcomes(ModeratorId, 1) :
               \E after \in {AgentProcess(before, context, response)} :
                 /\ moderator' = after
                 /\ calls' = Append(calls, Call(ModeratorId, loc.cycle, 0, context,
                                                before, after, response))
                 /\ st' = [st EXCEPT !.responses = Append(@, response)]
       ELSE UNCHANGED <<moderator, calls, st>>
    /\ pc' = "final"
    /\ UNCHANGED <<err, kind, args, agents0, agents, loc, warnings>>

\* self.final_response = self.responses[-1]
Finish ==
    /\ pc = "final"
    /\ st' = [st EXCEPT !.final_response = st.responses[Len(st.responses)]]
    /\ pc' = "done"
    /\ UNCHANGED <<err, kind, args, agents0, agents, moderator, loc, calls, warnings>>

\* --------------------------------------------------- construction, alone

\* The participants a caller may supply: with or without a task, with or
\* without combination instructions, with or without system instructions.
AgentTasks == {NoneVal, <<SP>>, OwnTask}
AgentCIs == {NoneVal, OwnCI}
AgentSyss == {NoneVal, OwnSys}

AgentLists(n, tasks, cis, syss) ==
    { [a \in 1..n |-> NewAgent(t[a], c[a], y)] :
        t \in [1..n -> tasks], c \in [1..n -> cis], y \in syss }

\* The moderators a caller may supply.
NoModerator == NewModerator(NoneVal, NoneVal, NoneVal)
Moderators ==
    { NewModerator(NoneVal, <<"mod_persona", "${task}">>, NoneVal),
      NewModerator(OwnTask, <<"mod_persona", "${task}">>, NoneVal),
      [NewModerator(NoneVal, NoneVal, <<"auto">>) EXCEPT !.system_instructions = <<"auto">>],
      NewModerator(OwnTask, NoneVal, <<"auto">>) }

\* The constructor's arguments.
Args(agentList, task, ci, cycles, last_n, shuffle, has_moderator, m, form, edges) ==
    [ agents |-> [i \in 1..Len(agentList) |-> i],
      task |-> task, combination_instructions |-> ci,
      cycles |-> cycles, last_n |-> last_n, shuffle |-> shuffle,
      has_moderator |-> has_moderator, moderator |-> m,
      form |-> form, edges |-> edges ]

\* Structure-level texts.
StructureTasks == {NoneVal, <<>>, StructureTask}
StructureCIs == {NoneVal, <<"default">>, <<"literal", "${previous_responses}">>,
                 <<"None", "of", "${previous_responses}">>}

\* cycles, last_n, shuffle and the moderator: all valid without a moderator
\* or with one, or one of cycles and last_n invalid.
Scalars ==
    {<<1, 1, s, FALSE, NoModerator>> : s \in BOOLEAN}
    \cup {<<0, 1, FALSE, FALSE, NoModerator>>, <<1, 0, FALSE, FALSE, NoModerator>>}
    \cup {<<1, 1, FALSE, TRUE, m>> : m \in Moderators}

\* Participants of a Structure that is only constructed.
MaxCtorAgents == 2

InitConstruct ==
    \E n \in 0..MaxCtorAgents :
    \E cfgs \in AgentLists(n, AgentTasks, AgentCIs, AgentSyss) :
    \E task \in StructureTasks, ci \in StructureCIs, sc \in Scalars :
       \/ \E k \in {"Chain", "Ensemble", "Debate"} :
             Fresh(k, cfgs, Args(cfgs, task, ci, sc[1], sc[2], sc[3], sc[4], sc[5], "list", <<>>))
       \/ /\ ~sc[3]
          /\ Fresh("Graph", cfgs,
                   Args(cfgs, task, ci, 1, sc[2], FALSE, sc[4], sc[5], "list", <<<<0, 1>>>>))
       \/ /\ ~sc[3]
          /\ Fresh("Graph", cfgs,
                   Args(cfgs, task, ci, 1, sc[2], FALSE, sc[4], sc[5], "dict",
                        <<<<AgentName(0), AgentName(1)>>>>))

NextConstruct == Construct

SpecConstruct == InitConstruct /\ [][NextConstruct]_vars

\* ------------------------------------------------------ the four structures

\* Participants that take the Structure's task and instructions, or bring
\* their own.
RunAgentLists(n) == AgentLists(n, {NoneVal, OwnTask}, AgentCIs, {NoneVal})

\* The moderator of a run, when there is one.
RunModerator == NewModerator(NoneVal, <<"mod_persona", "${task}">>, NoneVal)

\* Chain, Ensemble, Debate and Graph over two participants, each constructed
\* and run once, with and without a moderator.
Init ==
    \E cycles \in 1..MaxCycles, last_n \in 1..MaxLastN, hm \in BOOLEAN :
    \E m \in (IF hm THEN {RunModerator} ELSE {NoModerator}) :
    \E cfgs \in RunAgentLists(2) :
       \/ Fresh("Chain", cfgs, Args(cfgs, StructureTask, <<"default">>, cycles, last_n, FALSE,
                                    hm, m, "list", <<>>))
       \/ /\ last_n = 1
          /\ Fresh("Ensemble", cfgs, Args(cfgs, StructureTask, <<"default">>, cycles, 1, FALSE,
                                          hm, m, "list", <<>>))
       \/ Fresh("Debate", cfgs, Args(cfgs, StructureTask, <<"debate">>, cycles, last_n, FALSE,
                                     hm, m, "list", <<>>))
       \/ /\ last_n = 1 /\ cycles = 1
          /\ \E e \in {<<>>, <<<<0, 1>>>>, <<<<1, 0>>>>} :
               Fresh("Graph", cfgs, Args(cfgs, StructureTask, <<"default">>, 1, 1, FALSE,
                                         hm, m, "list", e))

Next ==
    \/ Construct
    \/ Begin
    \/ ChainStep
    \/ EnsembleSubmit
    \/ \E k \in DOMAIN loc.futures : EnsembleRun(k)
    \/ EnsembleCollect
    \/ DebateStep
    \/ GraphPop
    \/ GraphCheck
    \/ GraphStep
    \/ Moderate
    \/ Finish

Spec == Init /\ [][Next]_vars

\* ------------------------------------------------- the Ensemble's threads

\* Participants without a task or instructions of their own.
PlainAgents(n) == [a \in 1..n |-> NewAgent(NoneVal, NoneVal, NoneVal)]

\* An Ensemble of up to MaxAgents participants, run once.
InitEnsemble ==
    \E n \in 1..MaxAgents, cycles \in 1..MaxCycles, hm \in BOOLEAN :
    \E m \in (IF hm THEN {RunModerator} ELSE {NoModerator}) :
       Fresh("Ensemble", PlainAgents(n),
             Args(PlainAgents(n), StructureTask, <<"default">>, cycles, 1, FALSE,
                  hm, m, "list", <<>>))

NextEnsemble ==
    \/ Construct
    \/ Begin
    \/ EnsembleSubmit
    \/ \E k \in DOMAIN loc.futures : EnsembleRun(k)
    \/ EnsembleCollect
    \/ Moderate
    \/ Finish

SpecEnsemble == InitEnsemble /\ [][NextEnsemble]_vars

\* --------------------------------------------------- the Graph's schedule

\* The edge lists of at most MaxEdges edges over a set of endpoints.
EdgeLists(endpoints) ==
    UNION { [1..k -> endpoints \X endpoints] : k \in 0..MaxEdges }

\* A Graph of GraphAgents participants, in list form (edges of indices) or
\* in dict form (edges of names), over every edge list, run once.
InitGraph ==
    \/ \E e \in EdgeLists(0..(GraphAgents - 1)) :
          Fresh("Graph", PlainAgents(GraphAgents),
                Args(PlainAgents(GraphAgents), StructureTask, <<"default">>, 1, 1, FALSE,
                     FALSE, NoModerator, "list", e))
    \/ \E e \in EdgeLists({AgentName(i) : i \in 0..(GraphAgents - 1)}) :
          Fresh("Graph", PlainAgents(GraphAgents),
                Args(PlainAgents(GraphAgents), StructureTask, <<"default">>, 1, 1, FALSE,
                     FALSE, NoModerator, "dict", e))

NextGraph ==
    \/ Construct
    \/ Begin
    \/ GraphPop
    \/ GraphCheck
    \/ GraphStep
    \/ Moderate
    \/ Finish

SpecGraph == InitGraph /\ [][NextGraph]_vars

\* The same Graph with the while loop of Kahn's algorithm running on: a
\* pass of the loop that can be made is made.
SpecGraphFair == InitGraph /\ [][NextGraph]_vars /\ WF_vars(GraphPop)

\* ------------------------------------- Moderator.generate_system_instructions

\* The default of max_tries.
DefaultMaxTries == 10
\* Values of max_tries a caller passes explicitly.
MaxTries == 3

\* What re.match(r"^\s*system\s+instructions\s*:\s*", ..., re.IGNORECASE)
\* accepts as the marker: the words in any case, blanks between them.
GenerationMarkers == {"System Instructions:", "system  instructions :"}

\* Agent(...).process() raising instead of returning.
AgentRaised == <<"<raised>">>

\* What one generation call can give: texts with the marker in front, a
\* text without it, a text with the marker further on, None, an exception.
GenerationOutcomes ==
    { <<"System Instructions:", SP, "g1", SP>>,
      <<NL, "system  instructions :", "g2">>,
      <<"System Instructions:">>,
      <<"g3">>,
      <<"g4", SP, "System Instructions:", "g5">>,
      NoneVal,
      AgentRaised }

\* re.match of the marker at the start of the response.
MatchesMarker(response) ==
    StripLeft(response) # <<>> /\ Head(StripLeft(response)) \in GenerationMarkers

\* re.sub of the marker, then strip().
ExtractInstructions(response) == Strip(Tail(StripLeft(response)))

\* Whether the body of the try block gets to its return: the call returned
\* a str (re.match(pattern, None) raises TypeError) that matches.
AttemptSucceeds(response) ==
    response # AgentRaised /\ response # NoneVal /\ MatchesMarker(response)

\* A faulty variant of TriesLeft: one attempt more than max_tries.
TriesLeftInclusive(made, max_tries) == made <= max_tries

\* for _ in range(max_tries), after `made` passes.
TriesLeft(made, max_tries) == made < max_tries

\* The value of max_tries in the call.
MaxTriesOf(a) == IF a.max_tries_given THEN a.max_tries ELSE DefaultMaxTries

\* A call of generate_system_instructions(task) or
\* generate_system_instructions(task, max_tries) on a Moderator.
InitGenerate ==
    \E given \in BOOLEAN, n \in 0..MaxTries, task \in {NoneVal, StructureTask} :
       /\ given \/ n = 0
       /\ pc = "generate"
       /\ err = "none"
       /\ kind = "Moderator"
       /\ args = [max_tries_given |-> given, max_tries |-> n, task |-> task]
       /\ agents0 = <<>>
       /\ agents = <<>>
       /\ moderator = NewModerator(task, NoneVal, <<"auto">>)
       /\ st = [result |-> NoneVal]
       /\ loc = [made |-> 0, response |-> NoneVal]
       /\ calls = <<>>
       /\ warnings = <<>>

\* One pass of the loop: a generation call, and the return when it validates.
GenerateAttempt ==
    /\ pc = "generate"
    /\ TriesLeft(loc.made, MaxTriesOf(args))
    /\ \E response \in GenerationOutcomes :
          /\ loc' = [made |-> loc.made + 1, response |-> response]
          /\ IF AttemptSucceeds(response)
             THEN /\ pc' = "returned"
                  /\ st' = [st EXCEPT !.result = ExtractInstructions(response)]
             ELSE UNCHANGED <<pc, st>>
    /\ UNCHANGED <<err, kind, args, agents0, agents, moderator, calls, warnings>>

\* The loop is over without a return: the ValueError.
GenerateGiveUp ==
    /\ pc = "generate"
    /\ ~TriesLeft(loc.made, MaxTriesOf(args))
    /\ pc' = "raised"
    /\ err' = "ValueError"
    /\ UNCHANGED <<kind, args, agents0, agents, moderator, st, loc, calls, warnings>>

NextGenerate ==
    \/ GenerateAttempt
    \/ GenerateGiveUp

SpecGenerate == InitGenerate /\ [][NextGenerate]_vars

\* ---------------------------------------------------------- SmartString

\* Length of a template.
MaxTemplateLen == 3

\* The tokens of a template: placeholders in both notations, a placeholder
\* nobody fills, the escape of string.Template, a brace, a period, the word
\* None, another word.
TemplateTokens ==
    {"${task}", "$task", "${previous_responses}", "${other}", "$$", "{", ".", "None", "w"}

\* What a caller passes to SmartString(): a text, or None.
Contents ==
    UNION { [1..k -> TemplateTokens] : k \in 0..MaxTemplateLen } \cup {NoneVal}

\* The keyword arguments of format(): task, alone or with previous_responses.
FormatKwargs ==
    LET tasks == {NoneVal, <<"X">>, <<"X", ".">>, <<".">>, <<"{", "$$", "${other}">>}
    IN { <<<<"task", t>>>> : t \in tasks }
       \cup { <<<<"task", t>>, <<"previous_responses", <<"X", ".", ".">>>>>> : t \in tasks }

\* s = SmartString(content); s.format(avoid_double_period, **kwargs)
InitFormat ==
    \E content \in Contents, kw \in FormatKwargs, adp \in BOOLEAN :
       /\ pc = "content"
       /\ err = "none"
       /\ kind = "SmartString"
       /\ args = [content |-> content, kwargs |-> kw, avoid_double_period |-> adp]
       /\ agents0 = <<>>
       /\ agents = <<>>
       /\ moderator = NoModerator
       /\ st = [self |-> NoneVal, result |-> NoneVal]
       /\ loc = <<>>
       /\ calls = <<>>
       /\ warnings = <<>>

\* SmartString(content)
NewSmartString ==
    /\ pc = "content"
    /\ pc' = "string"
    /\ st' = [st EXCEPT !.self = SmartString(args.content)]
    /\ UNCHANGED <<err, kind, args, agents0, agents, moderator, loc, calls, warnings>>

\* s.format(avoid_double_period=..., **kwargs)
Format ==
    /\ pc = "string"
    /\ pc' = "formatted"
    /\ st' = [st EXCEPT !.result = SmartFormat(st.self, args.kwargs, args.avoid_double_period)]
    /\ UNCHANGED <<err, kind, args, agents0, agents, moderator, loc, calls, warnings>>

NextFormat ==
    \/ NewSmartString
    \/ Format

SpecFormat == InitFormat /\ [][NextFormat]_vars

\* ------------------------------------------------------------ the shuffle

\* Chain, Ensemble and Debate over two participants, with and without shuffle.
InitShuffle ==
    \E cycles \in 1..MaxCycles, shuffle \in BOOLEAN :
       \/ Fresh("Chain", PlainAgents(2),
                Args(PlainAgents(2), StructureTask, <<"default">>, cycles, 1, shuffle,
                     FALSE, NoModerator, "list", <<>>))
       \/ Fresh("Ensemble", PlainAgents(2),
                Args(PlainAgents(2), StructureTask, <<"default">>, cycles, 1, shuffle,
                     FALSE, NoModerator, "list", <<>>))
       \/ Fresh("Debate", PlainAgents(2),
                Args(PlainAgents(2), StructureTask, <<"debate">>, cycles, 1, shuffle,
                     FALSE, NoModerator, "list", <<>>))

NextShuffle ==
    \/ Construct
    \/ Begin
    \/ ChainStep
    \/ EnsembleSubmit
    \/ \E k \in DOMAIN loc.futures : EnsembleRun(k)
    \/ EnsembleCollect
    \/ DebateStep
    \/ Moderate
    \/ Finish

SpecShuffle == InitShuffle /\ [][NextShuffle]_vars

\* ------------------------------------------------ the Debate's transcript

\* A Debate whose participants may quote the labels of the transcript.
InitDebateEcho ==
    \E cycles \in 1..MaxCycles, last_n \in 1..MaxLastN :
       Fresh("Debate", PlainAgents(2),
             Args(PlainAgents(2), EchoTask, <<"debate">>, cycles, last_n, FALSE,
                  FALSE, NoModerator, "list", <<>>))

NextDebateEcho ==
    \/ Construct
    \/ Begin
    \/ DebateStep
    \/ Moderate
    \/ Finish

SpecDebateEcho == InitDebateEcho /\ [][NextDebateEcho]_vars

\* ------------------------------------------------- the Graph's edge checks

\* Length of an edge list whose endpoints need not be participants.
MaxCheckedEdges == 1

\* A name that is no key of the agents dictionary.
UnknownName == "stranger"

\* The edge lists of at most MaxCheckedEdges edges over a set of endpoints.
CheckedEdgeLists(endpoints) ==
    UNION { [1..k -> endpoints \X endpoints] : k \in 0..MaxCheckedEdges }

\* A Graph of GraphAgents participants whose edges are any pairs of integers
\* around the index range (list form) or any pairs of names, one of them
\* unknown (dict form).
InitEdges ==
    \/ \E e \in CheckedEdgeLists((0 - GraphAgents - 1)..GraphAgents) :
          Fresh("Graph", PlainAgents(GraphAgents),
                Args(PlainAgents(GraphAgents), StructureTask, <<"default">>, 1, 1, FALSE,
                     FALSE, NoModerator, "list", e))
    \/ \E e \in CheckedEdgeLists({AgentName(i) : i \in 0..(GraphAgents - 1)}
                                  \cup {UnknownName}) :
          Fresh("Graph", PlainAgents(GraphAgents),
                Args(PlainAgents(GraphAgents), StructureTask, <<"default">>, 1, 1, FALSE,
                     FALSE, NoModerator, "dict", e))

SpecEdges == InitEdges /\ [][NextGraph]_vars

\* ------------------------------------------- a Graph processed repeatedly

\* How many times the caller invokes process() on the Graph.
MaxRuns == 2

\* The caller invokes process() on a Graph whose process() has returned:
\* the queue is filled from self.in_degree as the run before left it.
ProcessAgain ==
    /\ pc = "done" /\ kind = "Graph"
    /\ Len(calls) <= (MaxRuns - 1) * Len(st.agents)
    /\ pc' = "schedule"
    /\ loc' = [ NoLocals EXCEPT !.zero_in_degree_queue =
                  ZeroInDegree(st.agents, st.in_degree) ]
    /\ UNCHANGED <<err, kind, args, agents0, agents, moderator, st, calls, warnings>>

NextRerun ==
    \/ Construct
    \/ Begin
    \/ GraphPop
    \/ GraphCheck
    \/ GraphStep
    \/ Moderate
    \/ Finish
    \/ ProcessAgain

SpecRerun == InitGraph /\ [][NextRerun]_vars

\* ---------------------------------------------- an Agent called directly

\* How many times the caller invokes process() on the Agent.
MaxAgentCalls == 2

\* The tasks the Agent is created with.
DirectTasks == {OwnTask, <<"pick", "None", "or", "all">>}

\* The combination instructions the Agent is created with.
DirectCIs == {OwnCI, <<"given", "${previous_responses}", "answer">>}

\* The outputs of earlier participants the caller passes on.
PriorOutputs == {<<"A">>, <<"B">>, <<"None", "of", "A">>}

\* The previous_responses argument of a call: absent, or one prior output
\* as helpers.format_previous_responses labels it.
DirectContexts ==
    {<<>>} \cup {format_previous_responses(<<o>>, <<>>) : o \in PriorOutputs}

\* agent = Agent(task=..., combination_instructions=...), in no Structure.
InitAgent ==
    \E task \in DirectTasks, ci \in DirectCIs :
       /\ pc = "agent"
       /\ err = "none"
       /\ kind = "Agent"
       /\ args = [task |-> task, combination_instructions |-> ci]
       /\ agents0 = <<NewAgent(task, ci, NoneVal)>>
       /\ agents = <<NewAgent(task, ci, NoneVal)>>
       /\ moderator = NoModerator
       /\ st = [task |-> NoneVal]
       /\ loc = <<>>
       /\ calls = <<>>
       /\ warnings = <<>>

\* agent.process(previous_responses=...)
DirectProcess ==
    /\ pc = "agent" /\ kind = "Agent"
    /\ Len(calls) < MaxAgentCalls
    /\ \E previous_responses \in DirectContexts :
       \E response \in Outcomes(1, CallsBy(1)) :
       \E after \in {AgentProcess(agents[1], previous_responses, response)} :
          /\ agents' = [agents EXCEPT ![1] = after]
          /\ calls' = Append(calls, Call(1, 0, Len(calls), previous_responses,
                                         agents[1], after, response))
    /\ UNCHANGED <<pc, err, kind, args, agents0, moderator, st, loc, warnings>>

NextAgent == DirectProcess

SpecAgent == InitAgent /\ [][NextAgent]_vars

\* ------------------------------------------------------------- properties

\* The calls of the participants (the moderator's call left out).
IsParticipantCall(c) == c.agent # ModeratorId

\* C1: in Ensemble.process, once the cycles are over, the entry of responses
\* at position k of a cycle's block is the output of the call submitted at
\* position k of that cycle, whatever the order in which the calls finished.
C1_SubmissionOrder ==
    (kind = "Ensemble" /\ pc \in {"moderate", "final", "done"}) =>
        \A j \in 1..Len(calls) :
            IsParticipantCall(calls[j]) =>
                st.responses[calls[j].cycle * Len(st.agents) + calls[j].position + 1]
                    = calls[j].response

\* C2: after process() a participant that had combination instructions of
\* its own before the Structure was built still has exactly them, and they
\* were the template of each of its calls.
C2_OwnInstructionsKept ==
    pc = "done" =>
        \A a \in DOMAIN agents :
            Truthy(agents0[a].combination_instructions) =>
                /\ agents[a].combination_instructions = agents0[a].combination_instructions
                /\ \A j \in 1..Len(calls) :
                      calls[j].agent = a =>
                          calls[j].template = agents0[a].combination_instructions

\* The edge set the caller gave, as pairs of participants (positions 1..n in
\* the agents argument), read off the constructor's arguments.
GraphNodes == 1..Len(args.agents)
NodeOf(x) ==
    IF args.form = "list" THEN x + 1 ELSE CHOOSE i \in GraphNodes : AgentName(i - 1) = x
GivenEdges == { <<NodeOf(args.edges[k][1]), NodeOf(args.edges[k][2])>> : k \in 1..Len(args.edges) }

\* The pairs joined by a path of at most k edges of E.
RECURSIVE PathsUpTo(_, _)
PathsUpTo(E, k) ==
    IF k <= 1 THEN E
    ELSE LET P == PathsUpTo(E, k - 1)
         IN P \cup { <<pe[1][1], pe[2][2]>> : pe \in {x \in P \X E : x[1][2] = x[2][1]} }

HasDirectedCycle ==
    \E a \in GraphNodes : <<a, a>> \in PathsUpTo(GivenEdges, Len(args.agents))

DirectPredecessors(a) == { e[1] : e \in {x \in GivenEdges : x[2] = a} }

\* C3: for an acyclic edge set, Graph construction and process() raise
\* nothing, no participant is invoked twice, every participant has been
\* invoked once when the loop is over, and each call comes after the calls
\* of all direct predecessors of its participant.
C3_TopologicalOrder ==
    (kind = "Graph" /\ ~HasDirectedCycle) =>
        /\ pc \notin {"failed", "raised"}
        /\ \A a \in GraphNodes :
              /\ CallsBy(a) <= 1
              /\ pc \in {"moderate", "final", "done"} => CallsBy(a) = 1
        /\ \A j \in 1..Len(calls) :
              \A p \in DirectPredecessors(calls[j].agent) :
                  \E i \in 1..(j - 1) : calls[i].agent = p

\* C3 witness: an acyclic Graph of two edges has run to its end, and the
\* first participant of the agents list was not the first to be invoked.
C3_Witness ==
    /\ kind = "Graph" /\ pc = "done" /\ ~HasDirectedCycle
    /\ Cardinality(GivenEdges) = 2
    /\ calls[1].agent # 1

\* How often a token occurs in a text, and how many entries
\* ("Response i: ...") a context has.
CountIn(s, tok) == Cardinality({i \in 1..Len(s) : s[i] = tok})
EntriesIn(s) == Cardinality({i \in 1..Len(s) : \E k \in 0..Len(s) : s[i] = ResponseLabel(k)})

\* C4: for an acyclic edge set, the context of each call in Graph.process has
\* one entry per direct predecessor of the participant and no other entry,
\* the output of each direct predecessor occurs in it exactly once, no output
\* of another participant occurs in it, and it is empty when the participant
\* has no incoming edge.
C4_PredecessorContext ==
    (kind = "Graph" /\ ~HasDirectedCycle) =>
        \A j \in 1..Len(calls) :
            LET c == calls[j]
                preds == DirectPredecessors(c.agent)
            IN /\ preds = {} => c.context = <<>>
               /\ EntriesIn(c.context) = Cardinality(preds)
               /\ \A i \in 1..Len(calls) :
                     calls[i].response # NoneVal =>
                         CountIn(c.context, calls[i].response[1])
                             = IF calls[i].agent \in preds THEN 1 ELSE 0

\* C4 witness: a participant with two direct predecessors has been invoked,
\* in a Graph where another call had no predecessor.
C4_Witness ==
    /\ kind = "Graph" /\ ~HasDirectedCycle
    /\ \E j \in 1..Len(calls) :
          /\ Cardinality(DirectPredecessors(calls[j].agent)) = 2
          /\ EntriesIn(calls[j].context) = 2
    /\ \E j \in 1..Len(calls) : calls[j].context = <<>>

\* A list-form edge from a participant to itself.
HasListSelfLoop ==
    args.form = "list" /\ \E k \in 1..Len(args.edges) : args.edges[k][1] = args.edges[k][2]

C6_StructureTaskHeadsRequests ==
    Truthy(st.task) =>
        \A j \in 1..Len(calls) :
            (IsParticipantCall(calls[j]) /\ calls[j].request # Pending) =>
                /\ calls[j].request # NoneVal
                /\ StartsWith(calls[j].request, st.task)

\* The min(k, m) most recent of the m entries of lst, oldest first.
MostRecent(lst, k) ==
    LET m == Len(lst)
        w == IF k < m THEN k ELSE m
    IN [i \in 1..w |-> lst[m - w + i]]

\* The outputs of the calls before call j, and debater a's labelled view of them.
OutputsBefore(j) == [i \in 1..(j - 1) |-> calls[i].response]
ViewBefore(a, j) ==
    [i \in 1..(j - 1) |->
        <<IF calls[i].agent = a THEN YouSaid ELSE OtherSaid>> \o calls[i].response]

\* C10: the context of each call of a participant in Chain.process is the
\* formatted list of the min(last_n, m) most recent of the m outputs produced
\* before it in the run, oldest first, and in Debate.process the same of the
\* calling debater's labelled view of them.
C10_Window ==
    \A j \in 1..Len(calls) :
        IsParticipantCall(calls[j]) =>
            /\ kind = "Chain" =>
                  calls[j].context =
                      format_previous_responses(MostRecent(OutputsBefore(j), st.last_n), <<>>)
            /\ kind = "Debate" =>
                  calls[j].context =
                      DebateFormat(MostRecent(ViewBefore(calls[j].agent, j), st.last_n))

\* C10 witness: a call of a Chain with last_n = 2 had three outputs before it.
C10_Witness ==
    /\ kind = "Chain" /\ st.last_n = 2
    /\ \E j \in 1..Len(calls) : IsParticipantCall(calls[j]) /\ j = 4

IsBlank(t) == t = NoneVal \/ \A i \in 1..Len(t) : t[i] \in Whitespace

AllHaveOwnTask == \A a \in DOMAIN agents0 : ~IsBlank(agents0[a].task_description)

TasksUntouched ==
    \A a \in DOMAIN agents :
        /\ agents[a].task_description = agents0[a].task_description
        /\ agents[a].original_task_description = agents0[a].original_task_description

\* C8, as stated: when the Structure has no task, construction succeeds
\* exactly when every participant has a non-blank task of its own, leaving
\* the participants' tasks as they were and the Structure's task unset, and
\* raises the missing-task error otherwise.
C8_SucceedsIffAllTasked ==
    (~Truthy(args.task) /\ pc # "new") =>
        IF AllHaveOwnTask
        THEN pc = "constructed" /\ TasksUntouched /\ ~Truthy(st.task)
        ELSE pc = "failed" /\ err = "no_task"

\* The errors of the checks that precede the participants' tasks: Debate's
\* count of participants, Graph's edges, the empty agents list.
EarlierErrors == {"debate_two_agents", "edge_range", "self_loop", "edge_names", "empty_agents"}

\* C8, amended: when the Structure has no task, construction succeeds only if
\* every participant has a non-blank task of its own, and then leaves the
\* participants' tasks as they were and the Structure's task unset; it raises
\* the missing-task error exactly when some participant has no non-blank task
\* and no earlier check (agents list, Debate's two participants, Graph's
\* edges) has failed.
C8_MissingTaskError ==
    (~Truthy(args.task) /\ pc # "new") =>
        /\ pc = "constructed" => (AllHaveOwnTask /\ TasksUntouched /\ ~Truthy(st.task))
        /\ err = "no_task" => (pc = "failed" /\ ~AllHaveOwnTask)
        /\ (~AllHaveOwnTask /\ err \notin EarlierErrors) => err = "no_task"

\* C8 witness: without a Structure task, a Structure has been built over two
\* participants with tasks, and a moderator with a task.
C8_Witness ==
    /\ pc = "constructed" /\ ~Truthy(args.task)
    /\ Len(agents) = 2
    /\ args.has_moderator

\* The value the claim C9 gives the Structure's combination instructions.
VerbatimResolved ==
    IF IsPresetName(args.combination_instructions)
    THEN PresetTemplate(args.combination_instructions[1])
    ELSE args.combination_instructions

\* C9: after construction every participant that had non-empty combination
\* instructions has them unchanged and every other participant has the preset
\* template of the Structure's argument when that is a preset name, and the
\* argument itself otherwise.
C9_ResolvedVerbatim ==
    pc = "constructed" =>
        \A a \in DOMAIN agents :
            agents[a].combination_instructions =
                IF Truthy(agents0[a].combination_instructions)
                THEN agents0[a].combination_instructions
                ELSE VerbatimResolved

\* The participant calls of a complete run.
ExpectedParticipantCalls ==
    IF kind = "Graph" THEN Len(args.agents) ELSE Len(args.agents) * args.cycles

\* C11: after one process() run of a freshly constructed Structure, responses
\* has len(agents) * cycles entries for Chain, Ensemble and Debate and
\* len(agents) entries for Graph, and one more when there is a moderator.
C11_ResponseCount ==
    pc = "done" =>
        Len(st.responses) =
            ExpectedParticipantCalls + (IF args.has_moderator THEN 1 ELSE 0)

\* C11 witness: a moderated Debate of two cycles has run to its end.
C11_Witness ==
    /\ pc = "done" /\ kind = "Debate"
    /\ args.cycles = 2 /\ args.has_moderator
    /\ Len(st.responses) = 5

\* The positions in calls of the moderator's calls.
ModeratorCalls == {j \in 1..Len(calls) : calls[j].agent = ModeratorId}

\* C12: the moderator is invoked at most once, and never without being
\* present; its call comes after all the participant calls of the run, each
\* of them finished, its result is the last entry of responses, and a run
\* with a moderator does not end without the call.
C12_ModeratorOnceAtEnd ==
    /\ Cardinality(ModeratorCalls) <= 1
    /\ ~args.has_moderator => ModeratorCalls = {}
    /\ \A j \in ModeratorCalls :
          /\ j = Len(calls)
          /\ j - 1 = ExpectedParticipantCalls
          /\ \A i \in 1..(j - 1) : calls[i].response # Pending
          /\ Len(st.responses) = ExpectedParticipantCalls + 1
          /\ st.responses[Len(st.responses)] = calls[j].response
    /\ (pc = "done" /\ args.has_moderator) => ModeratorCalls # {}

\* C12 witness: a moderated Ensemble of two cycles has run to its end.
C12_Witness ==
    /\ pc = "done" /\ kind = "Ensemble"
    /\ args.cycles = 2 /\ args.has_moderator
    /\ ModeratorCalls # {}

\* The positions in calls of the calls of participant a in cycle c (0-based).
CallsIn(a, c) == {j \in 1..Len(calls) : calls[j].agent = a /\ calls[j].cycle = c}

\* C13: in a finished Ensemble run, a participant whose call returned None
\* was invoked again in the same cycle.
C13_NullIsRetried ==
    (kind = "Ensemble" /\ pc = "done") =>
        \A j \in 1..Len(calls) :
            (IsParticipantCall(calls[j]) /\ calls[j].response = NoneVal) =>
                Cardinality(CallsIn(calls[j].agent, calls[j].cycle)) >= 2

\* The entries of responses that cycle c (0-based) of an Ensemble of n
\* participants appended.
CycleBlock(c, n) == SubSeq(st.responses, c * n + 1, (c + 1) * n)

\* C14: in an Ensemble, process() never raises; in every cycle each
\* participant is invoked exactly once, whatever the outcome of its siblings;
\* once the participants are through, responses holds, cycle by cycle, one
\* entry per participant: the result of that participant's call of the cycle,
\* None for a call that failed.
C14_FailureIsolated ==
    kind = "Ensemble" =>
        /\ pc # "raised"
        /\ pc \in {"moderate", "final", "done"} =>
              LET n == Len(st.agents) IN
              \A c \in 0..(st.cycles - 1) :
                 /\ Len(st.responses) >= n * st.cycles
                 /\ \A a \in 1..n : Cardinality(CallsIn(a, c)) = 1
                 /\ \E f \in [1..n -> 1..n] :
                       /\ \A k1, k2 \in 1..n : f[k1] = f[k2] => k1 = k2
                       /\ \A k \in 1..n :
                             \A j \in CallsIn(f[k], c) :
                                CycleBlock(c, n)[k] = calls[j].response

\* C14 witness: an Ensemble of two participants has finished a run in which
\* one call failed and the other participant's call of that cycle succeeded.
C14_Witness ==
    /\ kind = "Ensemble" /\ pc = "done" /\ Len(st.agents) = 2
    /\ \E c \in 0..(st.cycles - 1) :
          /\ NoneVal \in {CycleBlock(c, 2)[k] : k \in 1..2}
          /\ \E k \in 1..2 : CycleBlock(c, 2)[k] # NoneVal

\* What C15 asks of the run of one kind of Structure: process() does not
\* raise once a call has failed, no participant is invoked twice in a cycle,
\* and when the participants are through, responses holds the result of
\* every call in the order of the calls, None for a call that failed.
FailureRecorded(k) ==
    kind = k =>
        /\ pc = "raised" => \A j \in 1..Len(calls) : calls[j].response # NoneVal
        /\ \A j \in 1..Len(calls) :
              IsParticipantCall(calls[j]) =>
                  Cardinality(CallsIn(calls[j].agent, calls[j].cycle)) = 1
        /\ pc \in {"moderate", "final", "done"} =>
              /\ Len(st.responses) >= ExpectedParticipantCalls
              /\ Len(calls) >= ExpectedParticipantCalls
              /\ \A j \in 1..ExpectedParticipantCalls :
                    calls[j].response = NoneVal => st.responses[j] = NoneVal

\* C15: in Chain, Debate and Graph a failed participant call is not retried
\* and does not make process() raise; None is recorded for it and the run
\* goes on.
C15_FailureRecordedNoRaise ==
    FailureRecorded("Chain") /\ FailureRecorded("Debate") /\ FailureRecorded("Graph")

\* The label C16 expects before an output of participant a (position 1..n):
\* its name in dict form, 'Agent <index>' in list form.
NamedLabel(a) ==
    IF args.form = "dict" THEN AgentName(a - 1) \o ": "
    ELSE "Agent " \o ToString(a - 1) \o ": "

\* C16: in the context of each call in Graph.process and in the moderator's
\* context, the output of a participant is preceded by the participant's
\* name (dict form) or by 'Agent <index>' (list form).
C16_NamedLabels ==
    (kind = "Graph" /\ ~HasDirectedCycle) =>
        \A j \in 1..Len(calls) :
            \A i \in 1..(j - 1) :
                (calls[j].agent = ModeratorId
                    \/ calls[i].agent \in DirectPredecessors(calls[j].agent)) =>
                    Contains(calls[j].context,
                             <<NamedLabel(calls[i].agent)>> \o PyStr(calls[i].response))

\* The ValueErrors of Graph._validate_input_format.
EdgeValueErrors == {"edge_range", "edge_names", "self_loop"}

\* Whether x, an endpoint of an edge the caller gave, denotes a participant:
\* an index of 0..len(agents)-1 in list form, a key of agents in dict form.
DenotesParticipant(x) ==
    IF args.form = "list" THEN x \in 0..(Len(args.agents) - 1)
    ELSE \E i \in 1..Len(args.agents) : AgentKeys(Len(args.agents))[i] = x

\* C17: once the constructor of a Graph has returned or raised, an edge with
\* an endpoint that denotes no participant means it raised a ValueError.
C17_EndpointsValidated ==
    (kind = "Graph" /\ pc # "new"
        /\ \E k \in 1..Len(args.edges) :
              ~DenotesParticipant(args.edges[k][1]) \/ ~DenotesParticipant(args.edges[k][2])) =>
        (pc = "failed" /\ err \in EdgeValueErrors)

\* C18: once the constructor of a Graph has returned or raised, an edge from
\* a participant to itself means it raised a ValueError, in either form.
C18_SelfLoopsRejected ==
    (kind = "Graph" /\ pc # "new"
        /\ \E k \in 1..Len(args.edges) : args.edges[k][1] = args.edges[k][2]) =>
        (pc = "failed" /\ err \in EdgeValueErrors)

\* The label C19 expects on the j-th entry of responses (j counted from 1).
TurnLabel(j) == IF j % 2 = 1 THEN "[Debater 1] " ELSE "[Debater 2] "
IsTurnLabel(tok) == tok \in {"[Debater 1] ", "[Debater 2] "}

\* C19: in a Debate the entries of responses made by the participants are
\* the outputs of the first and the second debater in turn, the first
\* debater's prefixed '[Debater 1] ' and the second's '[Debater 2] ', and
\* the moderator's context shows the same labels in the same order.
C19_Alternation ==
    kind = "Debate" =>
        /\ \A j \in 1..Len(st.responses) :
              j <= ExpectedParticipantCalls =>
                  /\ calls[j].agent = st.agents[IF j % 2 = 1 THEN 1 ELSE 2]
                  /\ st.responses[j] = <<TurnLabel(j)>> \o calls[j].response
        /\ \A m \in ModeratorCalls :
              SelectSeq(calls[m].context, IsTurnLabel)
                  = [j \in 1..ExpectedParticipantCalls |-> TurnLabel(j)]

\* C19 witness: a moderated Debate of two cycles has run to its end.
C19_Witness ==
    /\ kind = "Debate" /\ pc = "done" /\ st.cycles = 2
    /\ \E m \in ModeratorCalls :
          Len(SelectSeq(calls[m].context, IsTurnLabel)) = 4

\* The place of the first occurrence of p in s, 0 if there is none.
Find(s, p) ==
    IF Contains(s, p)
    THEN CHOOSE i \in 1..(Len(s) - Len(p) + 1) :
            /\ SubSeq(s, i, i + Len(p) - 1) = p
            /\ \A k \in 1..(i - 1) : SubSeq(s, k, k + Len(p) - 1) # p
    ELSE 0

\* Turn i as debater a sees it.
SeenBy(a, i) ==
    <<IF calls[i].agent = a THEN YouSaid ELSE OtherSaid>> \o calls[i].response

LabelsIn(text) == Cardinality({p \in 1..Len(text) : text[p] \in TranscriptLabels})

\* C21: in a Debate, whatever the participants answered, the context of each
\* call holds as many speaker labels as it has entries: one per prior turn
\* of the window, the prefix the Debate put there, and none that a response
\* echoed.
C21_OneLabelPerEntry ==
    kind = "Debate" =>
        \A j \in 1..Len(calls) :
            IsParticipantCall(calls[j]) =>
                LabelsIn(calls[j].context) = Len(MostRecent(OutputsBefore(j), st.last_n))

\* C22: once the constructor of a Debate over a number of participants
\* other than 2 is through, it has raised the two-agents ValueError and
\* every participant, and the moderator, is as the caller made it.
C22_DebateNeedsTwo ==
    (kind = "Debate" /\ Len(args.agents) # 2 /\ pc # "new") =>
        /\ pc = "failed" /\ err = "debate_two_agents"
        /\ agents = agents0
        /\ moderator = args.moderator
        /\ warnings = <<>>

\* C22 witness: the constructor of a Debate over one participant, for a
\* Structure task that would replace the participant's own, has raised.
C22_Witness ==
    /\ kind = "Debate" /\ Len(args.agents) = 1 /\ pc = "failed"
    /\ Truthy(args.task) /\ Truthy(agents0[1].task_description)

\* C23: in Debate and Ensemble the call at position k of a cycle is the call
\* of the k-th participant the caller supplied, whatever the value of
\* shuffle; in Chain without shuffle likewise.
C23_ShuffleOnlyInChain ==
    (kind \in {"Debate", "Ensemble"} \/ (kind = "Chain" /\ ~args.shuffle)) =>
        \A j \in 1..Len(calls) :
            IsParticipantCall(calls[j]) =>
                calls[j].agent = args.agents[calls[j].position + 1]

\* The entries of responses that the participants' calls made.
ParticipantEntries ==
    SubSeq(st.responses, 1,
           IF Len(st.responses) < ExpectedParticipantCalls
           THEN Len(st.responses) ELSE ExpectedParticipantCalls)

\* The entry that call j of a Chain, Debate or Graph makes.
EntryOf(j) ==
    IF kind = "Debate" THEN <<TurnLabel(j)>> \o calls[j].response ELSE calls[j].response

\* C24: the context of the moderator's call is the formatted list of the
\* entries the participants' calls made: one entry per call of the run, in
\* the order the calls were made in Chain, Debate and Graph and in the order
\* of responses in Ensemble, where each call's result occurs as often as it
\* was returned; the entry of a failed call is there, with the text 'None'.
C24_ModeratorInput ==
    \A m \in ModeratorCalls :
        /\ m - 1 = ExpectedParticipantCalls
        /\ Len(ParticipantEntries) = m - 1
        /\ calls[m].context = format_previous_responses(ParticipantEntries, <<>>)
        /\ EntriesIn(calls[m].context) = m - 1
        /\ kind # "Ensemble" => \A j \in 1..(m - 1) : ParticipantEntries[j] = EntryOf(j)
        /\ \A j \in 1..(m - 1) :
              /\ Cardinality({i \in 1..(m - 1) : ParticipantEntries[i] = EntryOf(j)})
                    = Cardinality({i \in 1..(m - 1) : calls[i].response = calls[j].response})
              /\ calls[j].response = NoneVal =>
                    Contains(calls[m].context, <<"None">>)

\* C24 witness: the moderator of a Graph has been called after the second
\* participant ran first and one participant's call failed.
C24_Witness ==
    /\ kind = "Graph" /\ ModeratorCalls # {}
    /\ calls[1].agent = 2
    /\ \E j \in 1..2 : calls[j].response = NoneVal

\* C25: generate_system_instructions never makes more than max_tries
\* generation calls (10 when the caller gives none); while it keeps trying,
\* the last call did not validate; it returns what follows the marker in the
\* response that validated, which was the last call; and it raises
\* ValueError only after max_tries calls, an exception or None from a call
\* counting as a failed attempt.
C25_BoundedGeneration ==
    kind = "Moderator" =>
        /\ loc.made <= MaxTriesOf(args)
        /\ ~args.max_tries_given => MaxTriesOf(args) = 10
        /\ (pc = "generate" /\ loc.made > 0) =>
              (loc.response \in {NoneVal, AgentRaised} \/ ~MatchesMarker(loc.response))
        /\ pc = "returned" =>
              /\ loc.response \notin {NoneVal, AgentRaised}
              /\ Head(StripLeft(loc.response)) \in GenerationMarkers
              /\ st.result = Strip(Tail(StripLeft(loc.response)))
              /\ err = "none"
        /\ pc = "raised" =>
              /\ err = "ValueError"
              /\ loc.made = MaxTriesOf(args)
              /\ st.result = NoneVal
        /\ pc \in {"generate", "returned", "raised"}

\* C25 witness: a call with the default max_tries has raised after a last
\* generation call that raised.
C25_Witness ==
    /\ kind = "Moderator" /\ ~args.max_tries_given
    /\ pc = "raised" /\ loc.made = 10 /\ loc.response = AgentRaised

\* A Structure built with a Moderator whose system instructions were 'auto'.
AutoModerated ==
    /\ pc = "constructed" /\ args.has_moderator
    /\ args.moderator.system_instructions = <<"auto">>

Successes(a) ==
    LET done == SelectSeq(calls, LAMBDA c : c.agent = a /\ c.response \notin {NoneVal, Pending})
    IN [k \in 1..Len(done) |-> done[k].response]

\* The history of participant a holds one record per call of a that
\* returned a text, in the order of the calls, and nothing else; after a
\* run of Chain, Ensemble or Debate in which no call failed it holds as many
\* records as the run had cycles.
HistoryMatchesCalls ==
    \A a \in DOMAIN agents :
        /\ [k \in 1..Len(agents[a].history) |-> agents[a].history[k].response] = Successes(a)
        /\ (pc = "done" /\ kind \in {"Chain", "Ensemble", "Debate"}
               /\ \A j \in 1..Len(calls) : calls[j].response # NoneVal) =>
              Len(agents[a].history) = st.cycles

\* A step leaves the history of participant a as it is or appends one record.
HistoryGrowsByAppend ==
    \A a \in DOMAIN agents :
        \/ agents'[a].history = agents[a].history
        \/ /\ Len(agents'[a].history) = Len(agents[a].history) + 1
           /\ SubSeq(agents'[a].history, 1, Len(agents[a].history)) = agents[a].history

\* C27: a participant's history is append-only, it grows by one record per
\* call that succeeds and by none for a call that fails, and after a
\* process() run of c cycles of Chain, Ensemble or Debate without a failed
\* call every participant's history has c records more.
C27_HistoryAppendOnly == [](HistoryMatchesCalls) /\ [][HistoryGrowsByAppend]_vars

\* C27 witness: an Ensemble run of two cycles has ended without a failed
\* call, each participant with two records.
C27_Witness ==
    /\ pc = "done" /\ kind = "Ensemble" /\ st.cycles = 2
    /\ \A j \in 1..Len(calls) : calls[j].response # NoneVal
    /\ \A a \in DOMAIN agents : Len(agents[a].history) = 2

\* The value format() was given for key, '' for None.
GivenValue(key) ==
    LET kw == args.kwargs
        v == kw[CHOOSE i \in 1..Len(kw) : kw[i][1] = key][2]
    IN IF v = NoneVal THEN <<>> ELSE v
IsGiven(key) == \E i \in 1..Len(args.kwargs) : args.kwargs[i][1] = key

\* The key a token is a placeholder of, "" if it is none.
KeyOf(tok) ==
    IF tok \in {"${task}", "$task"} THEN "task"
    ELSE IF tok = "${previous_responses}" THEN "previous_responses"
    ELSE ""

\* The template with each placeholder named in the arguments replaced by its
\* value, and nothing else changed.
RECURSIVE OnlyNamedReplaced(_)
OnlyNamedReplaced(t) ==
    IF t = <<>> THEN <<>>
    ELSE (IF KeyOf(Head(t)) # "" /\ IsGiven(KeyOf(Head(t)))
          THEN GivenValue(KeyOf(Head(t))) ELSE <<Head(t)>>) \o OnlyNamedReplaced(Tail(t))

WithoutPeriods(t) == SelectSeq(t, LAMBDA tok : tok # ".")

\* C28: format() replaces the placeholders named in its arguments by their
\* values and leaves every other token of the template and every token of
\* the values as it is (periods apart when avoid_double_period is set), and
\* it does not raise.
C28_OnlyNamedPlaceholders ==
    (kind = "SmartString" /\ pc = "formatted") =>
        /\ err = "none"
        /\ st.self # <<>> =>
              IF args.avoid_double_period
              THEN WithoutPeriods(st.result) = WithoutPeriods(OnlyNamedReplaced(st.self))
              ELSE st.result = OnlyNamedReplaced(st.self)

\* The results that differ from plain substitution only in that the period
\* after a placeholder whose value ends with a period is dropped, at some of
\* the places where that happens.
RECURSIVE Collapses(_)
Collapses(t) ==
    IF t = <<>> THEN {<<>>}
    ELSE LET key == KeyOf(Head(t))
             named == key # "" /\ IsGiven(key)
             head == SafeSubstitute(<<Head(t)>>,
                        [i \in 1..Len(args.kwargs) |-> <<args.kwargs[i][1], GivenValue(args.kwargs[i][1])>>])
             spot == /\ named /\ Len(t) >= 2 /\ t[2] = "."
                     /\ EndsWith(GivenValue(key), <<".">>)
         IN { head \o rest : rest \in Collapses(Tail(t)) }
            \cup (IF spot THEN { head \o rest : rest \in Collapses(Tail(Tail(t))) } ELSE {})

\* C29: with avoid_double_period, the result of format() is the plain
\* substitution with nothing removed or changed but periods that directly
\* follow a placeholder whose value ends with a period.
C29_OnlyRedundantPeriod ==
    (kind = "SmartString" /\ pc = "formatted"
        /\ args.avoid_double_period /\ st.self # <<>>) =>
        st.result \in Collapses(st.self)

\* C30: SmartString(None) is the empty text; format() of an absent or
\* empty template gives an empty result; a None value is substituted as the
\* empty text; and the word None is in the result only if it was in the
\* template or in a value.
C30_AbsentIsEmpty ==
    kind = "SmartString" =>
        /\ (pc # "content" /\ args.content = NoneVal) => st.self = <<>>
        /\ pc = "formatted" =>
              /\ args.content \in {NoneVal, <<>>} => st.result \in {NoneVal, <<>>}
              /\ (args.content = NoneVal \/ ~Contains(args.content, <<"None">>)) =>
                     (st.result = NoneVal \/ ~Contains(st.result, <<"None">>))

\* C31: in an Ensemble, when a call of a cycle after the first has been
\* issued, every call of the cycle before has finished and all its results
\* are in responses; and the entries of responses come cycle by cycle: the
\* k-th entry is the result of a call of cycle (k - 1) \div len(agents).
C31_CycleBarrier ==
    kind = "Ensemble" =>
        LET n == Len(st.agents) IN
        /\ \A j \in 1..Len(calls) :
              (IsParticipantCall(calls[j]) /\ calls[j].cycle > 0) =>
                  /\ \A i \in 1..Len(calls) :
                        (IsParticipantCall(calls[i]) /\ calls[i].cycle < calls[j].cycle) =>
                            calls[i].response # Pending
                  /\ Len(st.responses) >= calls[j].cycle * n
        /\ \A k \in 1..Len(st.responses) :
              k <= ExpectedParticipantCalls =>
                  \E j \in 1..Len(calls) :
                      /\ IsParticipantCall(calls[j])
                      /\ calls[j].cycle = (k - 1) \div n
                      /\ calls[j].response = st.responses[k]

\* C31 witness: the calls of the second cycle of an Ensemble of two
\* participants have been issued and none has finished.
C31_Witness ==
    /\ kind = "Ensemble" /\ Len(st.agents) = 2
    /\ \E j \in 1..Len(calls) : calls[j].cycle = 1
    /\ \A j \in 1..Len(calls) : calls[j].cycle = 1 => calls[j].response = Pending

\* The tokens of the outputs produced so far, by any call.
OutputTokens ==
    UNION {{calls[i].response[t] : t \in 1..Len(calls[i].response)} :
              i \in {i \in 1..Len(calls) :
                        calls[i].response # Pending /\ calls[i].response # NoneVal}}

\* C32: every participant call of an Ensemble, in every cycle, is made with
\* an empty prior context, and its request holds no token of any output:
\* it is the participant's own task, stripped.
C32_EmptyContext ==
    kind = "Ensemble" =>
        \A j \in 1..Len(calls) :
            IsParticipantCall(calls[j]) =>
                /\ calls[j].context = <<>>
                /\ calls[j].response # Pending =>
                      /\ calls[j].request = Strip(agents[calls[j].agent].original_task_description)
                      /\ \A t \in 1..Len(calls[j].request) :
                            calls[j].request[t] \notin OutputTokens

\* C32 witness: a call of the second cycle has finished successfully while
\* responses already held the successful outputs of the first cycle.
C32_Witness ==
    /\ kind = "Ensemble" /\ Len(st.agents) = 2
    /\ \E j \in 1..Len(calls) :
          /\ calls[j].cycle = 1
          /\ calls[j].response # Pending /\ calls[j].response # NoneVal
    /\ \A k \in 1..2 : st.responses[k] # NoneVal

\* The positions whose call finishes in this step of an Ensemble.
FinishingCalls ==
    {k \in DOMAIN loc.futures :
        /\ k \in DOMAIN loc'.futures
        /\ loc.futures[k].state = "running"
        /\ loc'.futures[k].state = "done"}

\* The calls of an Ensemble that are running at the same time belong to
\* different participants.
RunningCallsAreOfDistinctParticipants ==
    (kind = "Ensemble" /\ pc = "run") =>
        \A k1, k2 \in DOMAIN loc.futures :
            (k1 # k2 /\ loc.futures[k1].state = "running"
                     /\ loc.futures[k2].state = "running") =>
                st.agents[k1] # st.agents[k2]

\* A step in which a call of an Ensemble finishes writes the state of that
\* call's participant, the call's record and the call's future, and nothing
\* else; a step that changes responses is a step of the coordinating thread,
\* which appends the result of one finished future and writes no participant.
WritesAreDisjoint ==
    (kind = "Ensemble" /\ pc = "run") =>
        /\ Cardinality(FinishingCalls) <= 1
        /\ \A k \in FinishingCalls :
              /\ st' = st /\ moderator' = moderator
              /\ \A a \in DOMAIN agents : a # st.agents[k] => agents'[a] = agents[a]
              /\ \A i \in DOMAIN loc.futures : i # k => loc'.futures[i] = loc.futures[i]
              /\ Len(calls') = Len(calls)
              /\ \A j \in 1..Len(calls) :
                    j # Len(calls) - Len(loc.futures) + k => calls'[j] = calls[j]
        /\ st'.responses # st.responses =>
              /\ FinishingCalls = {}
              /\ agents' = agents /\ calls' = calls
              /\ \E k \in DOMAIN loc.futures :
                    /\ loc.futures[k].state = "done"
                    /\ st'.responses = Append(st.responses, loc.futures[k].result)

\* C33: during Ensemble.process, with participants that are distinct
\* objects, no variable is written by two concurrently running calls: a
\* call writes only its own participant, and responses is written only by
\* the coordinating thread, one finished result at a time.
C33_NoSharedWrites ==
    /\ []RunningCallsAreOfDistinctParticipants
    /\ [][WritesAreDisjoint]_vars

\* C33 witness: of two calls that ran concurrently the second one submitted
\* has finished while the first is still running.
C33_Witness ==
    /\ kind = "Ensemble" /\ pc = "run" /\ Len(loc.futures) = 2
    /\ loc.futures[1].state = "running"
    /\ loc.futures[2].state = "done"
    /\ agents[st.agents[2]].history # <<>>

\* The request Agent.process makes from the baseline task and the context
\* of the call alone.
RequestFromBaseline(a, context) ==
    IF context = <<>> THEN Strip(a.original_task_description)
    ELSE Strip(SmartString(
             PyStr(a.original_task_description) \o <<NL>>
             \o PyStr(SmartFormat(SmartString(a.combination_instructions),
                                  <<<<"previous_responses", context>>>>, TRUE))))

\* C34: the request of every Agent.process call is the participant's
\* baseline task followed by the formatted context of that call and nothing
\* else; no context or request of an earlier call is carried into it.
C34_RequestRecomputed ==
    kind = "Agent" =>
        \A j \in 1..Len(calls) :
            calls[j].request = RequestFromBaseline(agents0[1], calls[j].context)

\* C40: the text of a prior output reaches the request of the next call
\* verbatim behind its label, and so does the task: nothing of either is
\* deleted or altered when Agent.process assembles the request.
C40_VerbatimContext ==
    kind = "Agent" =>
        \A j \in 1..Len(calls) :
            \A o \in PriorOutputs :
                calls[j].context = format_previous_responses(<<o>>, <<>>) =>
                    /\ Contains(calls[j].request, <<ResponseLabel(0)>> \o o)
                    /\ Contains(calls[j].request, agents0[1].original_task_description)

\* The index-pair edges that correspond to the name-pair edges of a Graph
\* given in dict form.
TwinEdges ==
    [k \in 1..Len(args.edges) |->
        <<NodeOf(args.edges[k][1]) - 1, NodeOf(args.edges[k][2]) - 1>>]

\* C35: a Graph built from a name-keyed dict with name-pair edges is the
\* Graph the list of the dict's values with the corresponding index-pair
\* edges gives: the one is constructed exactly when the other is, and with
\* the same participant order, edge list, successor map and in-degree map.
C35_DictFormIsListForm ==
    (kind = "Graph" /\ args.form = "dict" /\ pc \in {"failed", "constructed"}) =>
        LET n == Len(args.agents)
            twin == BuildGraph([i \in 1..n |-> i], TwinEdges, Len(TwinEdges))
        IN /\ pc = "failed" <=> ValidateEdges("list", n, TwinEdges, 1) # "none"
           /\ pc = "constructed" =>
                 /\ st.agents = [i \in 1..n |-> i]
                 /\ st.edges = TwinEdges
                 /\ st.graph = twin.graph
                 /\ st.in_degree = twin.in_degree

\* The errors of a construction that report a wrong configuration.
ConfigurationErrors == {"no_task", "cycles", "last_n", "moderator_no_task"}

\* C36: a construction that fails with a configuration error leaves every
\* participant as it was before the attempt: task, combination instructions
\* and system instructions unchanged.
C36_FailedConstructionKeepsAgents ==
    (pc = "failed" /\ err \in ConfigurationErrors) =>
        \A a \in DOMAIN agents :
            /\ agents[a].task_description = agents0[a].task_description
            /\ agents[a].original_task_description = agents0[a].original_task_description
            /\ agents[a].combination_instructions = agents0[a].combination_instructions
            /\ agents[a].system_instructions = agents0[a].system_instructions

\* C39: once a Structure is constructed with a task, a participant that had
\* no system instructions has none: task propagation gives no participant a
\* system message it did not have.
C39_NoSystemInstructionsKept ==
    (pc = "constructed" /\ Truthy(args.task)) =>
        \A a \in DOMAIN agents :
            agents0[a].system_instructions = NoneVal =>
                ~Truthy(agents[a].system_instructions)

\* C37: for an acyclic Graph, process() leaves the in-degree map as
\* _build_graph made it, and no invocation of process(), the second
\* included, ends in an error.
C37_InDegreeKept ==
    (kind = "Graph" /\ ~HasDirectedCycle /\ pc \notin {"new", "failed"}) =>
        /\ st.in_degree = BuildGraph(st.agents, st.edges, Len(st.edges)).in_degree
        /\ pc # "raised"

\* No participant occurs twice in the execution order.
AppendedAtMostOnce ==
    \A i, j \in 1..Len(loc.topological_order) :
        i # j => loc.topological_order[i] # loc.topological_order[j]

\* The while loop of Graph.process is over: its queue is empty, or process()
\* is past it.
SchedulingOver == pc # "schedule" \/ loc.zero_in_degree_queue = <<>>

\* C38: the scheduling loop of Graph.process terminates, for cyclic and
\* acyclic edge lists, and appends no participant to the execution order
\* twice.
C38_SchedulingTerminates ==
    /\ []AppendedAtMostOnce
    /\ (pc = "schedule") ~> SchedulingOver

\* C38 witness: the loop has ended on an edge list with a directed cycle
\* after it appended a participant, and the length check has raised.
C38_Witness ==
    /\ kind = "Graph" /\ HasDirectedCycle
    /\ pc = "raised" /\ err = "cycle"
    /\ loc.zero_in_degree_queue = <<>>
    /\ loc.topological_order # <<>>

====
